---- MODULE Spec2Model ----
(***************************************************************************)
(* EasyFill: the keyword-driven field-identification pipeline.             *)
(*                                                                         *)
(*   - Field Matching Engine   (utils/fieldMatcher)                        *)
(*   - Domain Blacklist Filter (utils/blacklistService)                    *)
(*   - Sync Coordinator        (entrypoints/background)                    *)
(*   - Keyword Store, content-script side (utils/keywordService) and the   *)
(*     fill pass of the content script (entrypoints/content)               *)
(*                                                                         *)
(* Strings are tuples of one-character strings, so that toLowerCase,       *)
(* includes, startsWith, endsWith and the edit distance are computed and   *)
(* not assumed.  Confidences are exact rationals <<numerator, denominator>>*)
(* in lowest terms.  Time is counted in hours.                             *)
(***************************************************************************)
EXTENDS Integers, Sequences, FiniteSets, TLC

VARIABLES
  \* ---- Field Matching Engine: one call of enhancedMatchKeywords
  mKeywordSets,   \* the KeywordSets object: its keys in Object.keys order, each with its Set in insertion order
  mAttributes,    \* the attributes array of the call
  mOptions,       \* the Partial<MatchOptions> of the call
  mResult,        \* the MatchResult returned
  mCalled,        \* whether the call has returned
  matchCache,     \* MatchCache.cache: the Map of smartMatchKeywords, in insertion order
  simCall,        \* one call of stringSimilarity: its arguments and the value returned
  \* ---- Domain Blacklist Filter: chrome.storage.local and one call of checkDomainInBlacklist
  blacklistEnabled,
  officialBlacklist,
  userBlacklist,
  checkDomain,    \* the domain argument of the call
  checkResult,    \* the DomainCheckResult, or NoResult before the call
  \* ---- Domain Blacklist Filter: the sync of the official list (syncOfficialBlacklist)
  bstore,         \* chrome.storage.local: validators, last sync and cache of the list
  bremote,        \* the server of the official list
  binv,           \* the invocation of syncOfficialBlacklist
  \* ---- Sync Coordinator (background) and chrome.storage.local
  now,            \* Date.now(), in hours
  online,         \* navigator.onLine
  connectionType, \* navigator.connection.type
  store,          \* chrome.storage.local: sync settings, validators, last sync, keyword cache
  remote,         \* the keyword source: the version it currently serves
  inv,            \* the invocations of syncKeywordsData: their position, locals and outcome
  refreshes,      \* getOrSyncKeywords requests received since the clock or the source last changed
  fetchCount,     \* fetch() calls those requests issued to the keyword source
  msg,            \* the getOrSyncKeywords request being handled: position and response
  \* ---- Keyword Store, content-script side, and the fill pass
  cs,             \* getKeywordSets / fetchKeywordSetsFromRemote of the content script
  pass,           \* the fill passes of the content script
  fields,         \* the input and textarea elements of the page, in document order
  profile,        \* the decrypted name, email and url of chrome.storage.sync ("" when absent)
  passwordFocused, \* isPasswordFieldFocused()
  \* ---- Blacklist settings page (the list of the user is userBlacklist above)
  roundTrip,      \* an export of the user list and its import into an empty list
  \* ---- Sync settings: the updateSyncSettings request of the settings page
  syncRequest,    \* the request being handled by the background: position and response
  \* ---- Keyword Store: the waits between the retries of fetchKeywordSetsFromRemote
  backoff,        \* the retry count and the delay getBackoffDelay returned last
  \* ---- Sync Coordinator: one fetch of a sync, with its abort timer and the clock
  fetchCall,  \* position, timer, seconds since the fetch was issued, outcome
  \* ---- Memoized matching: the distinct keys stored so far
  inserted,  \* how many attribute arrays smartMatchKeywords has been given and stored
  \* ---- Periodic sync timer
  timerState,  \* syncIntervalId, the interval timers alive, the runs of initializeKeywordSync
  \* ---- Fill scheduler
  scheduler   \* lastFillAt as the time elapsed since, pendingTimer, the timeouts of the page

matchVars   == <<mKeywordSets, mAttributes, mOptions, mResult, mCalled, matchCache,
                 simCall>>
blVars      == <<blacklistEnabled, officialBlacklist, userBlacklist, checkDomain, checkResult>>
syncVars    == <<now, online, connectionType, store, remote, inv, refreshes, fetchCount, msg>>
contentVars == <<cs, pass, fields, profile, passwordFocused>>
blSyncVars  == <<bstore, bremote, binv>>
pageVars    == <<roundTrip, syncRequest, backoff, fetchCall, inserted, timerState, scheduler>>
vars        == <<matchVars, blVars, blSyncVars, syncVars, contentVars, pageVars>>

NoSimilarity == [str1 |-> <<>>, str2 |-> <<>>, called |-> FALSE, value |-> <<0, 1>>]

NoRoundTrip == [done |-> FALSE, from |-> <<>>, file |-> <<>>, list |-> <<>>]

\* before: the stored sync settings when the request arrived
NoSyncRequest ==
  [pc |-> "idle", settings |-> <<>>, updates |-> <<>>, before |-> <<>>, synced |-> FALSE,
   response |-> [success |-> FALSE, error |-> ""]]

NoBackoff == [retryCount |-> 0, random |-> <<0, 1>>, delay |-> <<0, 1>>, module |-> ""]

NoFetchCall == [service |-> "", pc |-> "idle", timer |-> "none", elapsed |-> 0, outcome |-> ""]

\* the runs of initializeKeywordSync that can be in progress together
RunIds == {"run1", "run2"}

NoRun == [pc |-> "idle", syncInterval |-> 0]

\* syncIntervalId: 0 is null; timers: the interval timers alive in the worker;
\* failed: the latest settings read of a run was rejected
NoTimerState ==
  [syncIntervalId |-> 0, timers |-> {}, onInstalled |-> "idle", failed |-> FALSE,
   runs |-> [r \in RunIds |-> NoRun]]

MIN_AUTOFILL_INTERVAL_MS == 4000

\* elapsed: Date.now() - lastFillAt, kept up to MIN_AUTOFILL_INTERVAL_MS (lastFillAt
\* starts at 0); pendingTimer: 0 is null; timeouts: the timeouts of the page that
\* have not fired; fills: performFill calls, modulo 2; requests: the input
\* events of the user and the node additions of the page so far
NoScheduler ==
  [loaded |-> FALSE, elapsed |-> MIN_AUTOFILL_INTERVAL_MS, pendingTimer |-> 0, timeouts |-> {},
   fills |-> 0, requests |-> 0]

InitPageIdle ==
  /\ roundTrip = NoRoundTrip
  /\ syncRequest = NoSyncRequest
  /\ backoff = NoBackoff
  /\ fetchCall = NoFetchCall
  /\ inserted = 0
  /\ timerState = NoTimerState
  /\ scheduler = NoScheduler

(***************************************************************************)
(* Strings                                                                 *)
(***************************************************************************)
LowerChar(c) ==
  CASE c = "A" -> "a"
    [] c = "B" -> "b"
    [] c = "C" -> "c"
    [] c = "D" -> "d"
    [] c = "E" -> "e"
    [] c = "L" -> "l"
    [] c = "M" -> "m"
    [] c = "N" -> "n"
    [] c = "R" -> "r"
    [] c = "U" -> "u"
    [] OTHER   -> c

toLowerCase(s) == [i \in 1..Len(s) |-> LowerChar(s[i])]

includes(s, sub) ==
  \E i \in 0..(Len(s) - Len(sub)) : SubSeq(s, i + 1, i + Len(sub)) = sub

startsWith(s, prefix) ==
  Len(prefix) <= Len(s) /\ SubSeq(s, 1, Len(prefix)) = prefix

endsWith(s, suffix) ==
  Len(suffix) <= Len(s) /\ SubSeq(s, Len(s) - Len(suffix) + 1, Len(s)) = suffix

substring(s, from) == SubSeq(s, from + 1, Len(s))

Max(a, b) == IF a >= b THEN a ELSE b
Min(a, b) == IF a <= b THEN a ELSE b

(***************************************************************************)
(* Rationals in lowest terms                                               *)
(***************************************************************************)
RECURSIVE GCD(_, _)
GCD(a, b) == IF b = 0 THEN a ELSE GCD(b, a % b)

Rat(n, d) == LET g == GCD(n, d) IN <<n \div g, d \div g>>

RatMul(x, y) == Rat(x[1] * y[1], x[2] * y[2])
RatLt(x, y)  == x[1] * y[2] < y[1] * x[2]
RatLe(x, y)  == x[1] * y[2] <= y[1] * x[2]
RatGt(x, y)  == RatLt(y, x)
RatGe(x, y)  == RatLe(y, x)

RatZero == <<0, 1>>
RatOne  == <<1, 1>>

(***************************************************************************)
(* Similarity Engine                                                       *)
(***************************************************************************)
levenshtein(s1, s2) ==
  LET matrix[i \in 0..Len(s1), j \in 0..Len(s2)] ==
        IF i = 0 THEN j
        ELSE IF j = 0 THEN i
        ELSE LET cost == IF s1[i] = s2[j] THEN 0 ELSE 1
             IN  Min(Min(matrix[i - 1, j] + 1, matrix[i, j - 1] + 1),
                     matrix[i - 1, j - 1] + cost)
  IN  matrix[Len(s1), Len(s2)]

\* a similarity that tests containment before equality
stringSimilarityContainmentFirst(str1, str2) ==
  IF str1 = <<>> /\ str2 = <<>> THEN RatOne
  ELSE IF str1 = <<>> \/ str2 = <<>> THEN RatZero
  ELSE LET s1 == toLowerCase(str1)
           s2 == toLowerCase(str2)
           longerLength  == Max(Len(s1), Len(s2))
           shorterLength == Min(Len(s1), Len(s2))
       IN  IF includes(s1, s2) \/ includes(s2, s1)
             THEN Rat(shorterLength * 9, longerLength * 10)
             ELSE Rat(longerLength - levenshtein(s1, s2), longerLength)

\* a similarity that compares the strings as given
stringSimilarityCaseSensitive(str1, str2) ==
  IF str1 = <<>> /\ str2 = <<>> THEN RatOne
  ELSE IF str1 = <<>> \/ str2 = <<>> THEN RatZero
  ELSE LET longerLength  == Max(Len(str1), Len(str2))
           shorterLength == Min(Len(str1), Len(str2))
       IN  IF str1 = str2 THEN RatOne
           ELSE IF includes(str1, str2) \/ includes(str2, str1)
             THEN Rat(shorterLength * 9, longerLength * 10)
             ELSE Rat(longerLength - levenshtein(str1, str2), longerLength)

stringSimilarity(str1, str2) ==
  IF str1 = <<>> /\ str2 = <<>> THEN RatOne
  ELSE IF str1 = <<>> \/ str2 = <<>> THEN RatZero
  ELSE LET s1 == toLowerCase(str1)
           s2 == toLowerCase(str2)
           longerLength  == Max(Len(s1), Len(s2))
           shorterLength == Min(Len(s1), Len(s2))
       IN  IF s1 = s2 THEN RatOne
           ELSE IF includes(s1, s2) \/ includes(s2, s1)
             THEN Rat(shorterLength * 9, longerLength * 10)
             ELSE Rat(longerLength - levenshtein(s1, s2), longerLength)

(***************************************************************************)
(* Field Matching Engine                                                   *)
(***************************************************************************)
FoldSeq(Op(_, _), base, seq) ==
  LET f[i \in 0..Len(seq)] == IF i = 0 THEN base ELSE Op(f[i - 1], seq[i])
  IN  f[Len(seq)]

\* Set.prototype.has on a Set kept as its insertion-ordered sequence
Has(set, x) == \E i \in DOMAIN set : set[i] = x

\* the (attr, keyword) pairs in the order of the nested for-loops
LoopPairs(attrs, keywords) ==
  [k \in 1..(Len(attrs) * Len(keywords)) |->
     <<attrs[((k - 1) \div Len(keywords)) + 1], keywords[((k - 1) % Len(keywords)) + 1]>>]

DEFAULT_OPTIONS ==
  [ threshold        |-> <<7, 10>>,
    enableFuzzy      |-> TRUE,
    enableSubstring  |-> TRUE,
    enableContextual |-> TRUE,
    prioritizeExact  |-> TRUE,
    maxDistance      |-> 3,
    caseSensitive    |-> FALSE ]

\* { ...DEFAULT_OPTIONS, ...options }
MergeOptions(options) ==
  [k \in (DOMAIN DEFAULT_OPTIONS) \cup (DOMAIN options) |->
     IF k \in DOMAIN options THEN options[k] ELSE DEFAULT_OPTIONS[k]]

EmptyResult ==
  [matched |-> FALSE, fieldType |-> "", confidence |-> RatZero, method |-> "exact", keyword |-> <<>>]

\* the role and form-type multipliers of evaluateContextMatch
FormTypeFactor(fieldType, formType) ==
  CASE formType = "comment" /\ fieldType \in {"name", "email"} -> <<11, 10>>
    [] formType = "comment" /\ fieldType = "url"               -> <<6, 5>>
    [] formType = "contact" /\ fieldType = "email"             -> <<6, 5>>
    [] formType = "login" /\ fieldType \in {"email", "name"}   -> <<11, 10>>
    [] formType = "registration"                               -> <<21, 20>>
    [] OTHER                                                   -> RatOne

\* pageUrl is kept as the set of the marker words its lowercased text includes
PageUrlFactor(fieldType, pageUrl) ==
  LET f1 == IF "comment" \in pageUrl /\ fieldType = "name" THEN <<21, 20>> ELSE RatOne
      f2 == IF "profile" \in pageUrl /\ fieldType \in {"name", "url"} THEN <<21, 20>> ELSE RatOne
      f3 == IF "contact" \in pageUrl /\ fieldType = "email" THEN <<21, 20>> ELSE RatOne
  IN  RatMul(RatMul(f1, f2), f3)

evaluateContextMatch(fieldType, context, keywordSet) ==
  LET LabelStep(maxConfidence, pair) ==
        LET similarity == stringSimilarity(pair[1], toLowerCase(pair[2]))
        IN  IF RatGt(similarity, maxConfidence) THEN similarity ELSE maxConfidence
      byLabels == FoldSeq(LabelStep, RatZero, LoopPairs(context.nearbyLabels, keywordSet))
  IN  RatMul(RatMul(byLabels, FormTypeFactor(fieldType, context.formType)),
             PageUrlFactor(fieldType, context.pageUrl))

\* the exact-match check of one role: the first attribute the role's Set has
\* the engine without its exact-match stage
ExactAttrSkipped(opts, normalizedAttributes, keywordSet) == <<>>

ExactAttr(opts, normalizedAttributes, keywordSet) ==
  LET hits == {i \in DOMAIN normalizedAttributes :
                 Has(keywordSet, IF opts.caseSensitive THEN normalizedAttributes[i]
                                 ELSE toLowerCase(normalizedAttributes[i]))}
  IN  IF ~opts.prioritizeExact \/ hits = {} THEN <<>>
      ELSE <<normalizedAttributes[CHOOSE i \in hits : \A j \in hits : i <= j]>>

\* the engine without its substring stage
SubstringStepSkipped(opts, fieldType, result, pair) == result

SubstringStep(opts, fieldType, result, pair) ==
  LET attr == pair[1]
      keyword == pair[2]
      normalizedKeyword == IF opts.caseSensitive THEN keyword ELSE toLowerCase(keyword)
      hit(confidence) ==
        IF RatGt(confidence, result.confidence)
          THEN [matched |-> TRUE, fieldType |-> fieldType, confidence |-> confidence,
                method |-> "substring", keyword |-> <<keyword>>]
          ELSE result
  IN  IF includes(attr, normalizedKeyword)
        THEN hit(Rat(Len(normalizedKeyword) * 9, Len(attr) * 10))
      ELSE IF includes(normalizedKeyword, attr)
        THEN hit(Rat(Len(attr) * 17, Len(normalizedKeyword) * 20))
      ELSE result

FuzzyStep(opts, fieldType, result, pair) ==
  LET attr == pair[1]
      keyword == pair[2]
      normalizedKeyword == IF opts.caseSensitive THEN keyword ELSE toLowerCase(keyword)
      similarity == stringSimilarity(attr, normalizedKeyword)
  IN  IF RatGe(similarity, opts.threshold) /\ RatGt(similarity, result.confidence)
        THEN [matched |-> TRUE, fieldType |-> fieldType, confidence |-> similarity,
              method |-> "fuzzy", keyword |-> <<keyword>>]
        ELSE result

ContextStep(opts, fieldType, result, keywordSet) ==
  IF opts.enableContextual /\ "formContext" \in DOMAIN opts
    THEN LET contextConfidence == evaluateContextMatch(fieldType, opts.formContext, keywordSet)
         IN  IF RatGt(contextConfidence, result.confidence)
               THEN [result EXCEPT !.matched = TRUE, !.fieldType = fieldType,
                                   !.confidence = contextConfidence, !.method = "context"]
               ELSE result
    ELSE result

\* the body of the loop over Object.keys(keywordSets); acc.returned is the early return
RoleStep(opts, normalizedAttributes, acc, entry) ==
  IF acc.returned THEN acc
  ELSE
    LET fieldType == entry.key
        keywordSet == entry.set
        exact == ExactAttr(opts, normalizedAttributes, keywordSet)
        pairs == LoopPairs(normalizedAttributes, keywordSet)
        SubOp(r, p) == SubstringStep(opts, fieldType, r, p)
        FuzOp(r, p) == FuzzyStep(opts, fieldType, r, p)
        r1 == IF opts.enableSubstring THEN FoldSeq(SubOp, acc.result, pairs) ELSE acc.result
        r2 == IF opts.enableFuzzy THEN FoldSeq(FuzOp, r1, pairs) ELSE r1
        r3 == ContextStep(opts, fieldType, r2, keywordSet)
    IN  IF exact # <<>>
          THEN [returned |-> TRUE,
                result |-> [matched |-> TRUE, fieldType |-> fieldType, confidence |-> RatOne,
                            method |-> "exact", keyword |-> exact]]
          ELSE [returned |-> FALSE, result |-> r3]

\* the engine without its final threshold check
enhancedMatchKeywordsUnchecked(keywordSets, attributes, options) ==
  LET opts == MergeOptions(options)
      validAttributes == SelectSeq(attributes, LAMBDA a : a # <<>>)
      normalizedAttributes ==
        IF opts.caseSensitive THEN validAttributes
        ELSE [i \in DOMAIN validAttributes |-> toLowerCase(validAttributes[i])]
      Step(acc, entry) == RoleStep(opts, normalizedAttributes, acc, entry)
      out == FoldSeq(Step, [returned |-> FALSE, result |-> EmptyResult], keywordSets)
  IN  IF validAttributes = <<>> THEN EmptyResult ELSE out.result

enhancedMatchKeywords(keywordSets, attributes, options) ==
  LET opts == MergeOptions(options)
      validAttributes == SelectSeq(attributes, LAMBDA a : a # <<>>)
      normalizedAttributes ==
        IF opts.caseSensitive THEN validAttributes
        ELSE [i \in DOMAIN validAttributes |-> toLowerCase(validAttributes[i])]
      Step(acc, entry) == RoleStep(opts, normalizedAttributes, acc, entry)
      out == FoldSeq(Step, [returned |-> FALSE, result |-> EmptyResult], keywordSets)
  IN  IF validAttributes = <<>> THEN EmptyResult
      ELSE IF out.returned THEN out.result
      ELSE IF RatLt(out.result.confidence, opts.threshold)
        THEN [out.result EXCEPT !.matched = FALSE]
        ELSE out.result

(***************************************************************************)
(* Blacklist Manager: the domain check                                     *)
(***************************************************************************)
\* a wildcard whose base is compared without the separating dot
EntryMatchesAnySuffix(normalizedDomain, blackDomain) ==
  LET normalizedBlackDomain == toLowerCase(blackDomain)
  IN  IF startsWith(normalizedBlackDomain, <<"*", ".">>)
        THEN endsWith(normalizedDomain, substring(normalizedBlackDomain, 2))
        ELSE endsWith(normalizedDomain, normalizedBlackDomain)

\* the callback of allBlacklist.some(...)
EntryMatches(normalizedDomain, blackDomain) ==
  LET normalizedBlackDomain == toLowerCase(blackDomain)
  IN  IF startsWith(normalizedBlackDomain, <<"*", ".">>)
        THEN LET baseDomain == substring(normalizedBlackDomain, 2)
             IN  endsWith(normalizedDomain, <<".">> \o baseDomain) \/ normalizedDomain = baseDomain
        ELSE normalizedDomain = normalizedBlackDomain
               \/ endsWith(normalizedDomain, <<".">> \o normalizedBlackDomain)

\* a check that consults the lists whether or not the blacklist is enabled
checkDomainIgnoringSwitch(status, domain) ==
  LET normalizedDomain == toLowerCase(domain)
      allBlacklist == status.officialBlacklist \o status.userBlacklist
      isInBlacklist == \E i \in DOMAIN allBlacklist : EntryMatches(normalizedDomain, allBlacklist[i])
  IN  IF isInBlacklist
        THEN [allowed |-> FALSE, reason |-> "blacklisted"]
        ELSE [allowed |-> TRUE, reason |-> "allowed"]

\* status is the record getBlacklistStatus resolves to
checkDomainInBlacklist(status, domain) ==
  LET normalizedDomain == toLowerCase(domain)
      allBlacklist == status.officialBlacklist \o status.userBlacklist
      isInBlacklist == \E i \in DOMAIN allBlacklist : EntryMatches(normalizedDomain, allBlacklist[i])
  IN  IF status.blacklistEnabled /\ isInBlacklist
        THEN [allowed |-> FALSE, reason |-> "blacklisted"]
        ELSE [allowed |-> TRUE, reason |-> "allowed"]

BlacklistStatus ==
  [blacklistEnabled |-> blacklistEnabled, officialBlacklist |-> officialBlacklist,
   userBlacklist |-> userBlacklist]

MaxList == 2   \* entries in the official list and in the user list

\* entries are stored lower-cased (sync, add and import all lower-case them)
EntryPool ==
  { <<"*", ".", "b", ".", "c">>, <<"b", ".", "c">>, <<"a", ".", "b", ".", "c">>, <<"c">> }

HostPool ==
  { <<"b", ".", "c">>, <<"a", ".", "b", ".", "c">>, <<"a", ".", "a", ".", "b", ".", "c">>,
    <<"a", "b", ".", "c">>, <<"A", ".", "B", ".", "c">>, <<"c">> }

ListInputs == UNION { [1..k -> EntryPool] : k \in 0..MaxList }

NotChecked == [called |-> FALSE, allowed |-> TRUE, reason |-> ""]

InitFilterIdle ==
  /\ blacklistEnabled = TRUE
  /\ officialBlacklist = <<>>
  /\ userBlacklist = <<>>
  /\ checkDomain = <<>>
  /\ checkResult = NotChecked

InitBlacklistSyncIdle ==
  /\ bstore = <<>>
  /\ bremote = <<>>
  /\ binv = [pc |-> "idle"]

InitBlacklistIdle == InitFilterIdle /\ InitBlacklistSyncIdle

InitBlacklistInputs ==
  /\ blacklistEnabled \in BOOLEAN
  /\ officialBlacklist \in ListInputs
  /\ userBlacklist \in ListInputs
  /\ checkDomain \in HostPool
  /\ checkResult = NotChecked
  /\ InitBlacklistSyncIdle

CheckDomain ==
  /\ ~checkResult.called
  /\ checkResult' = [called |-> TRUE] @@ checkDomainInBlacklist(BlacklistStatus, checkDomain)
  /\ UNCHANGED <<blacklistEnabled, officialBlacklist, userBlacklist, checkDomain,
                 blSyncVars, matchVars, syncVars, contentVars, pageVars>>

\* what can throw inside the try block of checkDomainInBlacklist: the storage
\* read of getBlacklistStatus, and the callback on an entry that is no string
CheckFaults == {"status read", "entry evaluation"}

\* a check that lets the error reject its promise
Rejecting(fault) == [rejected |-> TRUE, reason |-> fault]

\* the catch branch of checkDomainInBlacklist
FailOpen(fault) == [allowed |-> TRUE, reason |-> "check failed"]

CheckDomainFails ==
  /\ ~checkResult.called
  /\ \E fault \in CheckFaults :
       checkResult' = [called |-> TRUE, fault |-> fault] @@ FailOpen(fault)
  /\ UNCHANGED <<blacklistEnabled, officialBlacklist, userBlacklist, checkDomain,
                 blSyncVars, matchVars, syncVars, contentVars, pageVars>>

(***************************************************************************)
(* Inputs of the matching engine                                           *)
(***************************************************************************)
MaxKeywords == 2   \* tokens in one KeywordSets object, over all roles

\* tokens are lower-case and non-empty (the keyword files hold lower-case tokens)
TokenPool ==
  { <<"a", "b">>, <<"a", "b", "c", "d">>, <<"a", "b", "c", "e">> }

\* attribute values as read from the DOM: any case, <<>> for a missing attribute
AttrPool ==
  { <<>>, <<"a", "b", "c">>, <<"a", "b", "c", "d">>, <<"A", "b", "C", "d">> }

RoleOrders == { <<"name", "email", "url">>, <<"url", "email", "name">> }

DistinctSeqs(S, n) ==
  UNION { {q \in [1..k -> S] : \A i, j \in 1..k : i # j => q[i] # q[j]} : k \in 0..n }

KeywordSetsInputs ==
  { [i \in 1..3 |-> [key |-> o[i], set |-> t[i]]] :
      o \in RoleOrders,
      t \in { u \in [1..3 -> DistinctSeqs(TokenPool, MaxKeywords)] :
                Len(u[1]) + Len(u[2]) + Len(u[3]) <= MaxKeywords } }

AttributeInputs ==
  { <<>> } \cup { <<a>> : a \in AttrPool } \cup { <<a, b>> : a, b \in AttrPool }

ContextPool ==
  { [nearbyLabels |-> << <<"a", "b", "c", "d">> >>, formType |-> "comment", pageUrl |-> {"comment"}],
    [nearbyLabels |-> << <<"a", "b">>, <<"a", "b", "c", "e">> >>, formType |-> "contact", pageUrl |-> {"contact", "profile"}] }

OptionInputs ==
  { <<>> } \cup
  { [formContext |-> c] : c \in ContextPool } \cup
  { [prioritizeExact |-> FALSE, formContext |-> c] : c \in ContextPool } \cup
  { [threshold |-> <<1, 2>>], [caseSensitive |-> TRUE] }

InitMatchIdle ==
  /\ mKeywordSets = <<>>
  /\ mAttributes = <<>>
  /\ mOptions = <<>>
  /\ mResult = EmptyResult
  /\ mCalled = FALSE
  /\ matchCache = <<>>
  /\ simCall = NoSimilarity

InitMatchInputs ==
  /\ mKeywordSets \in KeywordSetsInputs
  /\ mAttributes \in AttributeInputs
  /\ mOptions \in OptionInputs
  /\ mResult = EmptyResult
  /\ mCalled = FALSE
  /\ matchCache = <<>>
  /\ simCall = NoSimilarity

Match ==
  /\ ~mCalled
  /\ mResult' = enhancedMatchKeywords(mKeywordSets, mAttributes, mOptions)
  /\ mCalled' = TRUE
  /\ UNCHANGED <<mKeywordSets, mAttributes, mOptions, matchCache, simCall, blVars,
                 blSyncVars, syncVars, contentVars, pageVars>>

(***************************************************************************)
(* Keyword data, chrome.storage.local and the keyword source               *)
(***************************************************************************)
CACHE_TTL             == 24   \* hours
DEFAULT_SYNC_INTERVAL == 6    \* hours

MaxVersion == 2    \* versions the keyword source serves, one after the other
MaxTime    == 25   \* last hour of the clock

AllRoles == {"name", "email", "url"}

\* keyword JSON: where it comes from and which version of the source it is
NoData      == [source |-> "none", version |-> 0, roles |-> {}]
Bundled     == [source |-> "bundled", version |-> 0, roles |-> AllRoles]
EmptySets   == [source |-> "empty", version |-> 0, roles |-> AllRoles]
RemoteData(v) == [source |-> "remote", version |-> v, roles |-> AllRoles]

NoCache == [data |-> NoData, timestamp |-> 0]

\* a snapshot without the url role, left in storage by something other than
\* the sync of this version
PartialData  == [source |-> "remote", version |-> 0, roles |-> {"name", "email"}]
PartialCache == [data |-> PartialData, timestamp |-> 1]

\* KEYWORDS_CACHE_CONFIG.validator
KeywordsValidator(data) == data # NoData /\ AllRoles \subseteq data.roles

\* a cache read without the validator
getCacheDataUnvalidated(cache, ttl, t) ==
  IF cache = NoCache THEN NoData
  ELSE IF t - cache.timestamp >= ttl THEN NoData
  ELSE cache.data

\* a cache read that ignores the age of the entry
getCacheDataAnyAge(cache, ttl, t) ==
  IF cache = NoCache THEN NoData
  ELSE IF ~KeywordsValidator(cache.data) THEN NoData
  ELSE cache.data

\* getCacheData(KEYWORDS_CACHE_CONFIG) at time t; NoData stands for null
getCacheData(cache, ttl, t) ==
  IF cache = NoCache THEN NoData
  ELSE IF t - cache.timestamp >= ttl THEN NoData
  ELSE IF ~KeywordsValidator(cache.data) THEN NoData
  ELSE cache.data

getKeywordSetsFromCache == getCacheData(store.cache, CACHE_TTL, now)

\* validators: 0 stands for '' (none stored, header absent)
NoResponse == [kind |-> "none", etag |-> 0, lastModified |-> 0, body |-> "", version |-> 0]

Status(kind) == [NoResponse EXCEPT !.kind = kind]

\* RFC 7232: If-None-Match takes precedence over If-Modified-Since
NotModified(server, etag, lastModified) ==
  IF etag # 0 THEN etag = server.version
  ELSE lastModified # 0 /\ lastModified = server.version

\* what fetch() can resolve or reject with, for the validators sent
Responses(server, etag, lastModified) ==
  { [kind |-> "200",
     etag |-> IF server.sendsETag THEN server.version ELSE 0,
     lastModified |-> IF server.sendsLastModified THEN server.version ELSE 0,
     body |-> b, version |-> server.version] : b \in {"valid", "unreadable", "invalid"} }
  \cup (IF NotModified(server, etag, lastModified) THEN {Status("304")} ELSE {})
  \cup {Status("404"), Status("500"), Status("error"), Status("abort")}

(***************************************************************************)
(* Sync Coordinator: syncKeywordsData, one action per await                *)
(***************************************************************************)
\* who started the invocation: the interval timer (non-forced), the
\* syncKeywordsNow request (forced), the getOrSyncKeywords request (non-forced)
InvIds == {"timer", "manual", "message"}

\* ended: how the promise settled, "returned" (resolved) or "thrown" (rejected)
NoResult == [ended |-> "", success |-> FALSE, message |-> "", data |-> NoData]

\* wrote: the storage keys whose value this invocation has changed so far
IdleInv ==
  [pc |-> "idle", forceSync |-> FALSE, etag |-> 0, lastModified |-> 0,
   response |-> NoResponse, result |-> NoResult, wrote |-> {}]

\* a sync that lets its failures reject the promise
DoneOrThrow(i, success, message, data) ==
  [inv EXCEPT ![i].pc = "done",
              ![i].result = [ended |-> IF success THEN "returned" ELSE "thrown",
                             success |-> success, message |-> message, data |-> data]]

\* every exit of syncKeywordsData is a return statement: the early returns,
\* the returns of the inner catch and the return of the top-level catch
Done(i, success, message, data) ==
  [inv EXCEPT ![i].pc = "done",
              ![i].result = [ended |-> "returned", success |-> success, message |-> message,
                             data |-> data]]

Active(i) == inv[i].pc \notin {"idle", "done"}

Changed(key, old, new) == IF old # new THEN {key} ELSE {}

OtherThanSync == <<matchVars, blVars, blSyncVars, contentVars, pageVars>>

\* the fetch() call of line 634 with the conditional headers given
IssueFetch(i, etag, lastModified) ==
  /\ inv' = [inv EXCEPT ![i].pc = "fetching", ![i].etag = etag, ![i].lastModified = lastModified]
  /\ fetchCount' = IF i = "message" /\ refreshes > 0 THEN fetchCount + 1 ELSE fetchCount

\* entry of syncKeywordsData: the navigator.onLine check, up to the first await
BeginSync(i, forceSync) ==
  /\ inv[i].pc = "idle"
  /\ inv' = IF online
              THEN [inv EXCEPT ![i] = [IdleInv EXCEPT !.pc = "settings", !.forceSync = forceSync]]
              ELSE [inv EXCEPT ![i] = [IdleInv EXCEPT !.pc = "done", !.forceSync = forceSync,
                                                      !.result = [ended |-> "returned",
                                                                  success |-> FALSE,
                                                                  message |-> "offline",
                                                                  data |-> NoData]]]

\* the timer callback (line 291) and the syncKeywordsNow request (line 157)
StartSync(i) ==
  /\ i \in {"timer", "manual"}
  /\ BeginSync(i, i = "manual")
  /\ UNCHANGED <<now, online, connectionType, store, remote, refreshes, fetchCount, msg,
                 OtherThanSync>>

\* the settings read resolves; for a forced sync the fetch is issued
ReadSettings(i) ==
  /\ inv[i].pc = "settings"
  /\ IF ~store.syncEnabled /\ ~inv[i].forceSync
       THEN inv' = Done(i, FALSE, "disabled", NoData) /\ UNCHANGED fetchCount
     ELSE IF ~inv[i].forceSync /\ store.networkType = "wifi_only" /\ connectionType # "wifi"
       THEN inv' = Done(i, FALSE, "not wifi", NoData) /\ UNCHANGED fetchCount
     ELSE IF ~inv[i].forceSync
       THEN inv' = [inv EXCEPT ![i].pc = "validators"] /\ UNCHANGED fetchCount
     ELSE IssueFetch(i, 0, 0)
  /\ UNCHANGED <<now, online, connectionType, store, remote, refreshes, msg, OtherThanSync>>

\* the settings read rejects (chrome.runtime.lastError): the top-level catch
SettingsReadFails(i) ==
  /\ inv[i].pc = "settings"
  /\ inv' = Done(i, FALSE, "storage error", NoData)
  /\ UNCHANGED <<now, online, connectionType, store, remote, refreshes, fetchCount, msg,
                 OtherThanSync>>

\* the validators read resolves and the conditional fetch is issued
ReadValidators(i) ==
  /\ inv[i].pc = "validators"
  /\ IssueFetch(i, store.etag, store.lastModified)
  /\ UNCHANGED <<now, online, connectionType, store, remote, refreshes, msg, OtherThanSync>>

\* what follows the settling of fetch(), up to the next await (641-693, 740-756)
AfterFetch(i, r) ==
  CASE r.kind = "304" -> [inv EXCEPT ![i].pc = "touch304", ![i].response = r]
    [] r.kind = "404" -> [inv EXCEPT ![i].pc = "remove404", ![i].response = r]
    [] r.kind = "500" -> [Done(i, FALSE, "http error", NoData) EXCEPT ![i].response = r]
    [] r.kind = "error" -> [Done(i, FALSE, "fetch failed", NoData) EXCEPT ![i].response = r]
    [] r.kind = "abort" -> [Done(i, FALSE, "timeout", NoData) EXCEPT ![i].response = r]
    [] r.kind = "200" ->
         IF r.etag # 0 \/ r.lastModified # 0
           THEN [inv EXCEPT ![i].pc = "saveHeaders", ![i].response = r]
           ELSE [inv EXCEPT ![i].pc = "parse", ![i].response = r]

OnResponse(i) ==
  /\ inv[i].pc = "fetching"
  /\ \E r \in Responses(remote, inv[i].etag, inv[i].lastModified) : inv' = AfterFetch(i, r)
  /\ UNCHANGED <<now, online, connectionType, store, remote, refreshes, fetchCount, msg,
                 OtherThanSync>>

\* a 304 branch that returns without recording the sync time
Touch304Unstamped(i) ==
  /\ inv[i].pc = "touch304"
  /\ inv' = Done(i, TRUE, "not updated", NoData)
  /\ UNCHANGED <<now, online, connectionType, store, remote, refreshes, fetchCount, msg,
                 OtherThanSync>>

\* 304: updateLastSyncTime, then success without data
Touch304(i) ==
  /\ inv[i].pc = "touch304"
  /\ store' = [store EXCEPT !.lastSync = now]
  /\ inv' = [Done(i, TRUE, "not updated", NoData)
               EXCEPT ![i].wrote = @ \cup Changed("lastSync", store.lastSync, now)]
  /\ UNCHANGED <<now, online, connectionType, remote, refreshes, fetchCount, msg, OtherThanSync>>

\* a 404 branch that throws without touching the stored validators
Remove404Kept(i) ==
  /\ inv[i].pc = "remove404"
  /\ inv' = Done(i, FALSE, "http error", NoData)
  /\ UNCHANGED <<now, online, connectionType, store, remote, refreshes, fetchCount, msg,
                 OtherThanSync>>

\* 404: the validators are removed, then the error is thrown
Remove404(i) ==
  /\ inv[i].pc = "remove404"
  /\ store' = [store EXCEPT !.etag = 0, !.lastModified = 0]
  /\ inv' = [Done(i, FALSE, "http error", NoData)
               EXCEPT ![i].wrote = @ \cup Changed("validators", <<store.etag, store.lastModified>>,
                                                  <<0, 0>>)]
  /\ UNCHANGED <<now, online, connectionType, remote, refreshes, fetchCount, msg, OtherThanSync>>

\* 2xx: the validators of the response are stored (lines 688-706)
SaveHeaders(i) ==
  /\ inv[i].pc = "saveHeaders"
  /\ LET r == inv[i].response
         newEtag == IF r.etag # 0 THEN r.etag ELSE store.etag
         newLastModified == IF r.lastModified # 0 THEN r.lastModified ELSE store.lastModified
     IN  /\ store' = [store EXCEPT !.etag = newEtag, !.lastModified = newLastModified]
         /\ inv' = [inv EXCEPT ![i].pc = "parse",
                               ![i].wrote = @ \cup Changed("validators",
                                                           <<store.etag, store.lastModified>>,
                                                           <<newEtag, newLastModified>>)]
  /\ UNCHANGED <<now, online, connectionType, remote, refreshes, fetchCount, msg, OtherThanSync>>

\* response.json() settles and the structure is validated (lines 708-721)
ParseBody(i) ==
  /\ inv[i].pc = "parse"
  /\ inv' = CASE inv[i].response.body = "unreadable" -> Done(i, FALSE, "parse failed", NoData)
              [] inv[i].response.body = "invalid" -> Done(i, FALSE, "bad format", NoData)
              [] OTHER -> [inv EXCEPT ![i].pc = "saveCache"]
  /\ UNCHANGED <<now, online, connectionType, store, remote, refreshes, fetchCount, msg,
                 OtherThanSync>>

\* saveKeywordSetsToCache
SaveCache(i) ==
  /\ inv[i].pc = "saveCache"
  /\ LET entry == [data |-> RemoteData(inv[i].response.version), timestamp |-> now]
     IN  /\ store' = [store EXCEPT !.cache = entry]
         /\ inv' = [inv EXCEPT ![i].pc = "saveLastSync",
                               ![i].wrote = @ \cup Changed("cache", store.cache, entry)]
  /\ UNCHANGED <<now, online, connectionType, remote, refreshes, fetchCount, msg, OtherThanSync>>

\* updateLastSyncTime, then success with the new data
SaveLastSync(i) ==
  /\ inv[i].pc = "saveLastSync"
  /\ store' = [store EXCEPT !.lastSync = now]
  /\ inv' = [Done(i, TRUE, "updated", RemoteData(inv[i].response.version))
               EXCEPT ![i].wrote = @ \cup Changed("lastSync", store.lastSync, now)]
  /\ UNCHANGED <<now, online, connectionType, remote, refreshes, fetchCount, msg, OtherThanSync>>

\* the promise of a timer or manual sync is consumed
Finish(i) ==
  /\ i \in {"timer", "manual"}
  /\ inv[i].pc = "done"
  /\ inv' = [inv EXCEPT ![i] = IdleInv]
  /\ UNCHANGED <<now, online, connectionType, store, remote, refreshes, fetchCount, msg,
                 OtherThanSync>>

(***************************************************************************)
(* Domain Blacklist Filter: syncOfficialBlacklist, one action per await    *)
(***************************************************************************)
BLACKLIST_CACHE_TTL == 24   \* hours

\* String.prototype.split('\n'): the pieces between the line feeds
split(text) ==
  LET breaks == {i \in DOMAIN text : text[i] = "\n"}
      piece[i \in 1..(Len(text) + 1)] ==
        \* the pieces that start at position i or later
        LET ends == {j \in breaks : j >= i}
        IN  IF ends = {} THEN <<SubSeq(text, i, Len(text))>>
            ELSE LET j == CHOOSE k \in ends : \A l \in ends : k <= l
                 IN  <<SubSeq(text, i, j - 1)>> \o piece[j + 1]
  IN  piece[1]

WhiteSpace == {" ", "\t", "\r", "\n"}

\* String.prototype.trim
trim(line) ==
  LET inked == {i \in DOMAIN line : line[i] \notin WhiteSpace}
  IN  IF inked = {} THEN <<>>
      ELSE SubSeq(line, CHOOSE i \in inked : \A j \in inked : i <= j,
                        CHOOSE i \in inked : \A j \in inked : i >= j)

\* a parse that keeps the case of the entries
ParseKeepingCase(textContent) ==
  LET lines == split(textContent)
      trimmed == [i \in DOMAIN lines |-> trim(lines[i])]
  IN  SelectSeq(trimmed, LAMBDA line : /\ line # <<>>
                                       /\ ~startsWith(line, <<"#">>)
                                       /\ ~startsWith(line, <<"/", "/">>))

\* lines 323-327: split, trim, drop blank and comment lines, lower-case
ParseBlacklistText(textContent) ==
  LET lines == split(textContent)
      trimmed == [i \in DOMAIN lines |-> trim(lines[i])]
      kept == SelectSeq(trimmed, LAMBDA line : /\ line # <<>>
                                              /\ ~startsWith(line, <<"#">>)
                                              /\ ~startsWith(line, <<"/", "/">>))
  IN  [i \in DOMAIN kept |-> toLowerCase(kept[i])]

\* the text file the server holds, in its versions
RemoteText(v) ==
  IF v = 1
    THEN <<"#", " ", "x", "\n", " ", "B", ".", "c", " ", "\r", "\n", "\n">>
    ELSE <<"*", ".", "b", ".", "c", "\n", "/", "/", "c", "\n", "\t", "c">>

\* the list the server's file stands for
RemoteList(v) == ParseBlacklistText(RemoteText(v))

NoListCache == [present |-> FALSE, data |-> <<>>, timestamp |-> 0]

\* getCacheData(BLACKLIST_CACHE_CONFIG); hit = FALSE stands for null
getBlacklistFromCache ==
  IF ~bstore.cache.present THEN [hit |-> FALSE, data |-> <<>>]
  ELSE IF now - bstore.cache.timestamp >= BLACKLIST_CACHE_TTL THEN [hit |-> FALSE, data |-> <<>>]
  ELSE [hit |-> TRUE, data |-> bstore.cache.data]

NoListResult == [ended |-> "", message |-> "", blacklist |-> <<>>]

\* status: the BlacklistStatus read before the fetch
IdleBinv ==
  [pc |-> "idle", forceSync |-> FALSE, status |-> <<>>, etag |-> 0, lastModified |-> 0,
   response |-> NoResponse, result |-> NoListResult, wrote |-> {}]

Returned(b, message, blacklist) ==
  [b EXCEPT !.pc = "done",
            !.result = [ended |-> "returned", message |-> message, blacklist |-> blacklist]]

Thrown(b, message) ==
  [b EXCEPT !.pc = "done",
            !.result = [ended |-> "thrown", message |-> message, blacklist |-> <<>>]]

OtherThanBlacklistSync ==
  <<blacklistEnabled, userBlacklist, checkDomain, checkResult, matchVars, syncVars, contentVars,
    pageVars>>

\* lines 204-205: navigator.onLine decides what is awaited next
AfterCacheCheck == IF online THEN "status" ELSE "offline"

StartBlacklistSync ==
  /\ binv.pc = "idle"
  /\ \E forceSync \in BOOLEAN :
       binv' = [IdleBinv EXCEPT !.forceSync = forceSync,
                                !.pc = IF forceSync THEN AfterCacheCheck ELSE "readCache"]
  /\ UNCHANGED <<officialBlacklist, bstore, bremote, OtherThanBlacklistSync>>

\* lines 196-202: a non-forced sync is served from the cache when it is fresh
BlacklistReadCache ==
  /\ binv.pc = "readCache"
  /\ LET cachedBlacklist == getBlacklistFromCache
     IN  binv' = IF cachedBlacklist.hit
                   THEN Returned(binv, "cached", cachedBlacklist.data)
                   ELSE [binv EXCEPT !.pc = AfterCacheCheck]
  /\ UNCHANGED <<officialBlacklist, bstore, bremote, OtherThanBlacklistSync>>

\* lines 206-215: offline, the stored list is used when it is not empty
BlacklistOffline ==
  /\ binv.pc = "offline"
  /\ binv' = IF Len(officialBlacklist) > 0
               THEN Returned(binv, "stored", officialBlacklist)
               ELSE Thrown(binv, "offline")
  /\ UNCHANGED <<officialBlacklist, bstore, bremote, OtherThanBlacklistSync>>

\* lines 218-241: getBlacklistStatus; a forced sync goes on to fetch
BlacklistReadStatus ==
  /\ binv.pc = "status"
  /\ binv' = [binv EXCEPT !.status = officialBlacklist,
                          !.pc = IF binv.forceSync THEN "fetching" ELSE "validators"]
  /\ UNCHANGED <<officialBlacklist, bstore, bremote, OtherThanBlacklistSync>>

\* getBlacklistStatus rejects: the outer catch throws again
BlacklistStatusReadFails ==
  /\ binv.pc = "status"
  /\ binv' = Thrown(binv, "storage error")
  /\ UNCHANGED <<officialBlacklist, bstore, bremote, OtherThanBlacklistSync>>

BlacklistReadValidators ==
  /\ binv.pc = "validators"
  /\ binv' = [binv EXCEPT !.pc = "fetching", !.etag = bstore.etag,
                          !.lastModified = bstore.lastModified]
  /\ UNCHANGED <<officialBlacklist, bstore, bremote, OtherThanBlacklistSync>>

\* what follows the settling of fetch(), up to the next await (271-316, 354-369)
BlacklistAfterFetch(r) ==
  CASE r.kind = "304" -> [binv EXCEPT !.pc = "touch304", !.response = r]
    [] r.kind = "404" -> [binv EXCEPT !.pc = "remove404", !.response = r]
    [] r.kind = "500" -> Thrown([binv EXCEPT !.response = r], "http error")
    [] r.kind = "error" -> Thrown([binv EXCEPT !.response = r], "fetch failed")
    [] r.kind = "abort" -> Thrown([binv EXCEPT !.response = r], "timeout")
    [] r.kind = "200" ->
         IF r.etag # 0 \/ r.lastModified # 0
           THEN [binv EXCEPT !.pc = "saveHeaders", !.response = r]
           ELSE [binv EXCEPT !.pc = "parse", !.response = r]

\* the body is text: it can be read or not, there is no format to violate
BlacklistOnResponse ==
  /\ binv.pc = "fetching"
  /\ \E r \in Responses(bremote, binv.etag, binv.lastModified) :
       /\ r.body # "invalid"
       /\ binv' = BlacklistAfterFetch(r)
  /\ UNCHANGED <<officialBlacklist, bstore, bremote, OtherThanBlacklistSync>>

\* the blacklist keys of chrome.storage.local
StoredSettings ==
  [blacklistEnabled |-> blacklistEnabled, officialBlacklist |-> officialBlacklist,
   userBlacklist |-> userBlacklist, lastSync |-> bstore.lastSync]

\* an update that writes a whole status object, defaults for what is not given
updateWholeStatus(settings) ==
  LET defaults == [blacklistEnabled |-> TRUE, officialBlacklist |-> <<>>,
                   userBlacklist |-> <<>>, lastSync |-> 0]
  IN  [k \in DOMAIN defaults |-> IF k \in DOMAIN settings THEN settings[k] ELSE defaults[k]]

\* updateBlacklistSettings: only the keys present in settings are written
updateBlacklistSettings(settings) ==
  [k \in DOMAIN StoredSettings |->
     IF k \in DOMAIN settings THEN settings[k] ELSE StoredSettings[k]]

\* the storage after chromeStorageSet(updateData)
SettingsBecome(new) ==
  /\ blacklistEnabled' = new.blacklistEnabled
  /\ officialBlacklist' = new.officialBlacklist
  /\ userBlacklist' = new.userBlacklist
  /\ bstore' = [bstore EXCEPT !.lastSync = new.lastSync]

NotBlacklistSettings == <<checkDomain, checkResult, matchVars, syncVars, contentVars, pageVars>>

\* 304: updateBlacklistSettings({lastSync}), then the list read before the fetch
BlacklistTouch304 ==
  /\ binv.pc = "touch304"
  /\ SettingsBecome(updateBlacklistSettings([lastSync |-> now]))
  /\ binv' = [Returned(binv, "not updated", binv.status)
                EXCEPT !.wrote = @ \cup Changed("lastSync", bstore.lastSync, now)]
  /\ UNCHANGED <<bremote, NotBlacklistSettings>>

\* 404: the validators are removed, then the error is thrown
BlacklistRemove404 ==
  /\ binv.pc = "remove404"
  /\ bstore' = [bstore EXCEPT !.etag = 0, !.lastModified = 0]
  /\ binv' = [Thrown(binv, "http error")
                EXCEPT !.wrote = @ \cup Changed("validators",
                                                <<bstore.etag, bstore.lastModified>>, <<0, 0>>)]
  /\ UNCHANGED <<officialBlacklist, bremote, OtherThanBlacklistSync>>

\* 2xx: the validators of the response are stored (lines 300-316)
BlacklistSaveHeaders ==
  /\ binv.pc = "saveHeaders"
  /\ LET r == binv.response
         newEtag == IF r.etag # 0 THEN r.etag ELSE bstore.etag
         newLastModified == IF r.lastModified # 0 THEN r.lastModified ELSE bstore.lastModified
     IN  /\ bstore' = [bstore EXCEPT !.etag = newEtag, !.lastModified = newLastModified]
         /\ binv' = [binv EXCEPT !.pc = "parse",
                                 !.wrote = @ \cup Changed("validators",
                                                          <<bstore.etag, bstore.lastModified>>,
                                                          <<newEtag, newLastModified>>)]
  /\ UNCHANGED <<officialBlacklist, bremote, OtherThanBlacklistSync>>

\* response.text() settles (lines 318-331)
BlacklistParseText ==
  /\ binv.pc = "parse"
  /\ binv' = IF binv.response.body = "unreadable"
               THEN Thrown(binv, "parse failed")
               ELSE [binv EXCEPT !.pc = "saveList"]
  /\ UNCHANGED <<officialBlacklist, bstore, bremote, OtherThanBlacklistSync>>

\* a sync that appends the new entries to the stored official list
BlacklistSaveListMerged ==
  /\ binv.pc = "saveList"
  /\ LET blacklist == RemoteList(binv.response.version)
         merged == officialBlacklist \o
                   SelectSeq(blacklist, LAMBDA e : \A i \in DOMAIN officialBlacklist :
                                                    officialBlacklist[i] # e)
     IN  /\ SettingsBecome(updateBlacklistSettings([officialBlacklist |-> merged,
                                                    lastSync |-> now]))
         /\ binv' = [binv EXCEPT !.pc = "saveCache",
                                 !.wrote = @ \cup Changed("list", officialBlacklist, merged)
                                             \cup Changed("lastSync", bstore.lastSync, now)]
  /\ UNCHANGED <<bremote, NotBlacklistSettings>>

\* updateBlacklistSettings({officialBlacklist, lastSync}): one storage write
BlacklistSaveList ==
  /\ binv.pc = "saveList"
  /\ LET blacklist == RemoteList(binv.response.version)
     IN  /\ SettingsBecome(updateBlacklistSettings([officialBlacklist |-> blacklist,
                                                    lastSync |-> now]))
         /\ binv' = [binv EXCEPT !.pc = "saveCache",
                                 !.wrote = @ \cup Changed("list", officialBlacklist, blacklist)
                                             \cup Changed("lastSync", bstore.lastSync, now)]
  /\ UNCHANGED <<bremote, NotBlacklistSettings>>

\* saveBlacklistToCache, then the new list is returned
BlacklistSaveCache ==
  /\ binv.pc = "saveCache"
  /\ LET blacklist == RemoteList(binv.response.version)
         entry == [present |-> TRUE, data |-> blacklist, timestamp |-> now]
     IN  /\ bstore' = [bstore EXCEPT !.cache = entry]
         /\ binv' = [Returned(binv, "updated", blacklist)
                       EXCEPT !.wrote = @ \cup Changed("cache", bstore.cache, entry)]
  /\ UNCHANGED <<officialBlacklist, bremote, OtherThanBlacklistSync>>

\* the promise is consumed by the caller
BlacklistFinish ==
  /\ binv.pc = "done"
  /\ binv' = IdleBinv
  /\ UNCHANGED <<officialBlacklist, bstore, bremote, OtherThanBlacklistSync>>

(***************************************************************************)
(* The clock, the network and the keyword source                           *)
(***************************************************************************)
TickSteps == {12, 24}   \* hours

IdleMsg == [pc |-> "idle", sync |-> "", response |-> [success |-> FALSE, data |-> NoData]]

IdleCs ==
  [pc |-> "idle", cacheRead |-> "", snapshot |-> "", retryCount |-> 0, attempts |-> 0,
   failure |-> "none", stale |-> NoData, tier |-> "", result |-> NoData, defaultKeywordSets |-> NoData]

\* the clock (in hours), the network and the source change between calls:
\* a call lasts seconds (10 s time-outs)
Quiescent ==
  /\ \A i \in InvIds : inv[i].pc = "idle"
  /\ binv.pc = "idle"
  /\ msg.pc = "idle"
  /\ cs.pc = "idle"

Tick ==
  /\ Quiescent
  /\ \E d \in TickSteps : now + d <= MaxTime /\ now' = now + d
  /\ refreshes' = 0
  /\ fetchCount' = 0
  /\ UNCHANGED <<online, connectionType, store, remote, inv, msg, OtherThanSync>>

\* the keyword file on the server is replaced, between calls
RemoteUpdate ==
  /\ Quiescent
  /\ remote.version < MaxVersion
  /\ remote' = [remote EXCEPT !.version = @ + 1]
  /\ refreshes' = 0
  /\ fetchCount' = 0
  /\ UNCHANGED <<now, online, connectionType, store, inv, msg, OtherThanSync>>

\* the blacklist file on the server is replaced, between calls
BlacklistRemoteUpdate ==
  /\ Quiescent
  /\ bremote.version < MaxVersion
  /\ bremote' = [bremote EXCEPT !.version = @ + 1]
  /\ UNCHANGED <<officialBlacklist, bstore, binv, OtherThanBlacklistSync>>

\* navigator.onLine and the connection type change between calls
NetworkChange ==
  /\ Quiescent
  /\ \E o \in BOOLEAN, c \in {"wifi", "cellular"} :
       /\ <<o, c>> # <<online, connectionType>>
       /\ online' = o
       /\ connectionType' = c
  /\ UNCHANGED <<now, store, remote, inv, refreshes, fetchCount, msg, OtherThanSync>>

SettingsPool ==
  { [syncEnabled |-> TRUE, networkType |-> "any"],
    [syncEnabled |-> FALSE, networkType |-> "any"],
    [syncEnabled |-> TRUE, networkType |-> "wifi_only"] }

HeaderModes == { <<TRUE, TRUE>>, <<TRUE, FALSE>>, <<FALSE, TRUE>>, <<FALSE, FALSE>> }

\* a fresh profile: nothing stored about the official list yet
InitBlacklistSyncInputs ==
  /\ bstore = [etag |-> 0, lastModified |-> 0, lastSync |-> 0, cache |-> NoListCache]
  /\ \E h \in HeaderModes :
       bremote = [version |-> 1, sendsETag |-> h[1], sendsLastModified |-> h[2]]
  /\ binv = IdleBinv

\* a profile that never synced with this version: no validators, no last sync
InitSyncFrom(caches) ==
  /\ now = 1
  /\ online = TRUE
  /\ connectionType = "wifi"
  /\ \E st \in SettingsPool, c \in caches :
       store = [syncEnabled |-> st.syncEnabled, networkType |-> st.networkType,
                syncInterval |-> DEFAULT_SYNC_INTERVAL, keywordsUrl |-> "",
                etag |-> 0, lastModified |-> 0,
                lastSync |-> 0, cache |-> c]
  /\ \E h \in HeaderModes :
       remote = [version |-> 1, sendsETag |-> h[1], sendsLastModified |-> h[2]]
  /\ inv = [i \in InvIds |-> IdleInv]
  /\ refreshes = 0
  /\ fetchCount = 0
  /\ msg = IdleMsg

\* a fresh profile: nothing stored about keywords yet
InitSyncInputs == InitSyncFrom({NoCache})

(***************************************************************************)
(* Keyword Store: getKeywordSets of the content script and the             *)
(* getOrSyncKeywords handler of the background                             *)
(***************************************************************************)
MAX_RETRIES  == 3
MaxRefreshes == 2   \* getOrSyncKeywords requests between two changes of the clock or the source

KwFrame == <<matchVars, blVars, blSyncVars, pass, fields, profile, passwordFocused, pageVars>>

\* triggerBackgroundSyncAndFetch: every rejection is caught and turned into null
triggerBackgroundSyncAndFetch(arrived, response) ==
  [thrown |-> FALSE, retryable |-> FALSE,
   keywordSets |-> IF arrived /\ response.success /\ response.data # NoData
                     THEN response.data ELSE NoData]

\* the body of the while loop of fetchKeywordSetsFromRemote, after the await
AfterAttempt(c, outcome) ==
  IF ~outcome.thrown
    THEN IF outcome.keywordSets # NoData
           THEN [c EXCEPT !.pc = "returned", !.tier = "background", !.result = outcome.keywordSets]
           ELSE [c EXCEPT !.pc = "default"]
    ELSE IF outcome.retryable /\ c.retryCount < MAX_RETRIES
           THEN [c EXCEPT !.pc = "remote", !.retryCount = @ + 1]
           ELSE [c EXCEPT !.pc = "default"]

\* how the fetch of the attempt ended, as the sync result tells it: a
\* time-out or a rejected fetch is transient
FailureOf(syncMessage) ==
  IF syncMessage \in {"timeout", "fetch failed"} THEN "transient"
  ELSE IF syncMessage \in {"updated", "not updated"} THEN "none"
  ELSE "other"

\* the data of the snapshot in storage when it is past the TTL, NoData otherwise
StaleSnapshot ==
  IF store.cache # NoCache /\ now - store.cache.timestamp >= CACHE_TTL
    THEN store.cache.data ELSE NoData

\* what the storage holds under the cache key
SnapshotState ==
  IF store.cache = NoCache THEN "none"
  ELSE IF now - store.cache.timestamp >= CACHE_TTL THEN "expired"
  ELSE IF AllRoles \subseteq store.cache.data.roles THEN "fresh"
  ELSE "invalid"

\* a call of getKeywordSets
CallGetKeywordSets ==
  /\ cs.pc = "idle"
  /\ cs' = [cs EXCEPT !.pc = "cache"]
  /\ UNCHANGED <<syncVars, KwFrame>>

\* tier 1: the cache read; stale and snapshot record what the storage held at
\* the read
CsReadCache ==
  /\ cs.pc = "cache"
  /\ LET cached == getKeywordSetsFromCache
     IN  cs' = IF cached # NoData
                 THEN [cs EXCEPT !.pc = "returned", !.tier = "cache", !.result = cached,
                                 !.stale = StaleSnapshot, !.cacheRead = "hit",
                                 !.snapshot = SnapshotState]
                 ELSE [cs EXCEPT !.pc = "remote", !.stale = StaleSnapshot, !.cacheRead = "miss",
                                 !.snapshot = SnapshotState]
  /\ UNCHANGED <<syncVars, KwFrame>>

\* the storage read of the cache fails: getCacheData catches and returns null
CsCacheReadFails ==
  /\ cs.pc = "cache"
  /\ cs' = [cs EXCEPT !.pc = "remote", !.cacheRead = "failed", !.snapshot = SnapshotState]
  /\ UNCHANGED <<syncVars, KwFrame>>

\* tier 2: the getOrSyncKeywords message reaches the background, whose
\* handler calls syncKeywordsData(false)
Request(counted) ==
  /\ cs.pc = "remote"
  /\ msg.pc = "idle"
  /\ cs' = [cs EXCEPT !.pc = "waiting", !.attempts = @ + 1]
  /\ msg' = [IdleMsg EXCEPT !.pc = "syncing"]
  /\ BeginSync("message", FALSE)
  /\ refreshes' = IF counted THEN refreshes + 1 ELSE refreshes
  /\ UNCHANGED <<now, online, connectionType, store, remote, fetchCount, KwFrame>>

CsRequest == Request(FALSE)

\* the same, with the requests and their fetches counted
CsRequestCounted ==
  /\ refreshes < MaxRefreshes
  /\ Request(TRUE)

\* the message cannot be delivered (chrome.runtime.lastError)
CsRequestRejected ==
  /\ cs.pc = "remote"
  /\ cs' = AfterAttempt([cs EXCEPT !.attempts = @ + 1, !.failure = "undelivered"],
                        triggerBackgroundSyncAndFetch(FALSE, msg.response))
  /\ UNCHANGED <<syncVars, KwFrame>>

\* lines 95-131: the continuation of the handler after syncKeywordsData
HandlerAfterSync ==
  /\ msg.pc = "syncing"
  /\ inv["message"].pc = "done"
  /\ LET r == inv["message"].result
     IN  msg' = IF r.success /\ r.data # NoData
                  THEN [pc |-> "responded", sync |-> r.message,
                        response |-> [success |-> TRUE, data |-> r.data]]
                ELSE IF r.success
                  THEN [msg EXCEPT !.pc = "readCache", !.sync = r.message]
                ELSE [msg EXCEPT !.pc = "local", !.sync = r.message]
  /\ inv' = [inv EXCEPT !["message"] = IdleInv]
  /\ UNCHANGED <<now, online, connectionType, store, remote, refreshes, fetchCount,
                 OtherThanSync>>

\* lines 106-111: getKeywordSetsFromCache after a sync without new data
HandlerReadCache ==
  /\ msg.pc = "readCache"
  /\ LET cachedData == getKeywordSetsFromCache
     IN  msg' = IF cachedData # NoData
                  THEN [msg EXCEPT !.pc = "responded",
                                   !.response = [success |-> TRUE, data |-> cachedData]]
                  ELSE [msg EXCEPT !.pc = "local"]
  /\ UNCHANGED <<now, online, connectionType, store, remote, inv, refreshes, fetchCount,
                 OtherThanSync>>

\* fetchLocalKeywords: the bundled file, which can fail to load
HandlerLocal ==
  /\ msg.pc = "local"
  /\ \E ok \in BOOLEAN :
       msg' = [msg EXCEPT !.pc = "responded",
                          !.response = [success |-> ok, data |-> IF ok THEN Bundled ELSE NoData]]
  /\ UNCHANGED <<now, online, connectionType, store, remote, inv, refreshes, fetchCount,
                 OtherThanSync>>

\* a content script that caches the data of the response itself
CsReplySavingCache ==
  /\ cs.pc = "waiting"
  /\ msg.pc = "responded"
  /\ cs' = AfterAttempt([cs EXCEPT !.failure = FailureOf(msg.sync)],
                        triggerBackgroundSyncAndFetch(TRUE, msg.response))
  /\ msg' = IdleMsg
  /\ store' = IF msg.response.success /\ msg.response.data # NoData
                THEN [store EXCEPT !.cache = [data |-> msg.response.data, timestamp |-> now + 1]]
                ELSE store
  /\ UNCHANGED <<now, online, connectionType, remote, inv, refreshes, fetchCount, KwFrame>>

\* the response reaches the content script
CsReply ==
  /\ cs.pc = "waiting"
  /\ msg.pc = "responded"
  /\ cs' = AfterAttempt([cs EXCEPT !.failure = FailureOf(msg.sync)],
                        triggerBackgroundSyncAndFetch(TRUE, msg.response))
  /\ msg' = IdleMsg
  /\ UNCHANGED <<now, online, connectionType, store, remote, inv, refreshes, fetchCount, KwFrame>>

\* sendRuntimeMessage gives up after 10 s; the handler goes on
CsTimeout ==
  /\ cs.pc = "waiting"
  /\ msg.pc \in {"syncing", "readCache", "local"}
  /\ cs' = AfterAttempt([cs EXCEPT !.failure = "unanswered"],
                        triggerBackgroundSyncAndFetch(FALSE, msg.response))
  /\ UNCHANGED <<syncVars, KwFrame>>

\* a response nobody waits for any more
MsgDropped ==
  /\ msg.pc = "responded"
  /\ cs.pc # "waiting"
  /\ msg' = IdleMsg
  /\ UNCHANGED <<now, online, connectionType, store, remote, inv, refreshes, fetchCount,
                 OtherThanSync>>

\* the caller has taken the result; the module variable defaultKeywordSets stays
CsFinish ==
  /\ cs.pc = "returned"
  /\ cs' = [IdleCs EXCEPT !.defaultKeywordSets = cs.defaultKeywordSets]
  /\ UNCHANGED <<syncVars, KwFrame>>

\* a tier 3 that hands on what the load produced, nothing when it failed
CsDefaultUnguarded ==
  /\ cs.pc = "default"
  /\ \E ok \in BOOLEAN :
       LET loaded == IF cs.defaultKeywordSets # NoData THEN cs.defaultKeywordSets
                     ELSE IF ok THEN Bundled ELSE NoData
       IN  cs' = [cs EXCEPT !.pc = "returned", !.tier = "default", !.defaultKeywordSets = loaded,
                            !.result = loaded]
  /\ UNCHANGED <<syncVars, KwFrame>>

\* tier 3: the memoized default, loaded through fetchLocalKeywords
CsDefault ==
  /\ cs.pc = "default"
  /\ \E ok \in BOOLEAN :
       LET loaded == IF cs.defaultKeywordSets # NoData THEN cs.defaultKeywordSets
                     ELSE IF ok THEN Bundled ELSE EmptySets
       IN  cs' = [cs EXCEPT !.pc = "returned", !.tier = "default", !.defaultKeywordSets = loaded,
                            !.result = IF loaded = Bundled THEN Bundled ELSE EmptySets]
  /\ UNCHANGED <<syncVars, KwFrame>>

(***************************************************************************)
(* Form Filler: one fill pass (fillInputFields)                            *)
(***************************************************************************)
PassIds == {1, 2}

T_url   == <<"u", "r", "l">>
T_email == <<"e", "m", "a", "i", "l">>

SetOf(keywordSets, key) ==
  LET hits == {i \in DOMAIN keywordSets : keywordSets[i].key = key}
  IN  IF hits = {} THEN <<>> ELSE keywordSets[CHOOSE i \in hits : TRUE].set

\* the if / else-if chain of the main loop, for one element
ValueToSet(el, keywordSets, user) ==
  LET typeAttr == toLowerCase(el.type)
      nameAttr == toLowerCase(el.name)
      idAttr == toLowerCase(el.id)
      has(role) == \/ Has(SetOf(keywordSets, role), nameAttr)
                   \/ Has(SetOf(keywordSets, role), <<"#">> \o idAttr)
  IN  IF has("url") THEN [value |-> user.url, fieldType |-> "url"]
      ELSE IF typeAttr = T_url /\ user.url # "" THEN [value |-> user.url, fieldType |-> "url"]
      ELSE IF has("email") THEN [value |-> user.email, fieldType |-> "email"]
      ELSE IF typeAttr = T_email /\ user.email # "" THEN [value |-> user.email, fieldType |-> "email"]
      ELSE IF has("name") /\ user.name # "" THEN [value |-> user.name, fieldType |-> "name"]
      ELSE [value |-> "", fieldType |-> ""]

\* inputs.forEach(...): every element with a value to set is written
MainLoop(els, keywordSets, user) ==
  LET v(i) == ValueToSet(els[i], keywordSets, user)
      hit == {i \in DOMAIN els : v(i).value # ""}
  IN  [els |-> [i \in DOMAIN els |-> IF i \in hit THEN [els[i] EXCEPT !.value = v(i).value]
                                                   ELSE els[i]],
       written |-> hit,
       foundFieldTypes |-> {v(i).fieldType : i \in hit}]

\* findElementInAllRoots(selector): the first element the selector matches
FirstMatch(els, Sel(_)) ==
  LET hits == {i \in DOMAIN els : els[i].tag = "input" /\ Sel(els[i])}
  IN  IF hits = {} THEN 0 ELSE CHOOSE i \in hits : \A j \in hits : i <= j

FillIfEmpty(acc, i, value) ==
  IF i # 0 /\ acc.els[i].value = ""
    THEN [acc EXCEPT !.els[i].value = value, !.written = @ \cup {i}]
    ELSE acc

\* the selectors tried for one missing field type: a placeholder selector
\* per keyword that is not an id keyword, then the type selector
FallbackOps(fieldType, keywordSet) ==
  LET plain == SelectSeq(keywordSet, LAMBDA k : ~startsWith(k, <<"#">>))
  IN  [i \in DOMAIN plain |-> [kind |-> "placeholder", fieldType |-> fieldType, keyword |-> plain[i]]]
      \o (IF fieldType \in {"email", "url"}
            THEN << [kind |-> "type", fieldType |-> fieldType, keyword |-> <<>>] >>
            ELSE <<>>)

FallbackStep(user, acc, op) ==
  LET ByPlaceholder(el) == includes(el.placeholder, op.keyword)
      ByType(el) == toLowerCase(el.type) = (IF op.fieldType = "email" THEN T_email ELSE T_url)
      i == IF op.kind = "placeholder" THEN FirstMatch(acc.els, ByPlaceholder)
           ELSE FirstMatch(acc.els, ByType)
  IN  FillIfEmpty(acc, i, user[op.fieldType])

\* lines 434-513: the field types the main loop did not find
Fallback(acc, keywordSets, user) ==
  LET missingFieldTypes == SelectSeq(<<"name", "email", "url">>, LAMBDA t : t \notin acc.foundFieldTypes)
      opsOf(t) == FallbackOps(t, SetOf(keywordSets, t))
      Flat(ops, t) == ops \o opsOf(t)
      Step(a, op) == FallbackStep(user, a, op)
  IN  FoldSeq(Step, acc, FoldSeq(Flat, <<>>, missingFieldTypes))

FillFields(els, keywordSets, user) == Fallback(MainLoop(els, keywordSets, user), keywordSets, user)

\* a domain-check response: arrived is FALSE when sendRuntimeMessage rejects
\* (time-out, lastError, empty response)
Rejected == [arrived |-> FALSE, success |-> FALSE, allowed |-> FALSE]
HandlerFailed == [arrived |-> TRUE, success |-> FALSE, allowed |-> FALSE]

\* the background answers with the result of checkDomainInBlacklist
HandlerResponse ==
  [arrived |-> TRUE, success |-> TRUE,
   allowed |-> checkDomainInBlacklist(BlacklistStatus, checkDomain).allowed]

\* a gate that looks at the success flag only
GateOnSuccessOnly(response) == response.arrived /\ response.success

\* if (!response || !response.success || !response.data.allowed) return;
GateOpen(response) == response.arrived /\ response.success /\ response.allowed

IdlePass == [pc |-> "idle", response |-> Rejected, written |-> {}]

Input(type, name, id, placeholder, value) ==
  [tag |-> "input", type |-> type, name |-> name, id |-> id, placeholder |-> placeholder,
   value |-> value]

DomPool ==
  { << Input(<<"t">>, <<"N", "a">>, <<>>, <<>>, ""),
       Input(T_email, <<"x">>, <<>>, <<>>, "typed"),
       Input(<<>>, <<>>, <<"u">>, <<>>, "") >>,
    << Input(<<>>, <<"x">>, <<>>, <<"x", "e", "m">>, ""),
       Input(<<"U", "R", "L">>, <<>>, <<>>, <<>>, ""),
       [tag |-> "textarea", type |-> <<>>, name |-> <<"c">>, id |-> <<>>, placeholder |-> <<>>,
        value |-> ""] >>,
    << Input(<<"t">>, <<"x">>, <<"x">>, <<"x">>, "") >>,
    << [tag |-> "textarea", type |-> <<>>, name |-> <<"n", "a">>, id |-> <<>>,
        placeholder |-> <<>>, value |-> ""],
       Input(<<>>, <<"x">>, <<>>, <<"x", "e", "m">>, ""),
       Input(<<>>, <<"y">>, <<>>, <<"m", "a">>, "") >> }

\* what getKeywordSets resolves to
KeywordResults ==
  { << [key |-> "name", set |-> << <<"n", "a">> >>],
       [key |-> "email", set |-> << <<"e", "m">> >>],
       [key |-> "url", set |-> << <<"#", "u">>, <<"u", "r">> >>] >>,
    << [key |-> "name", set |-> << <<"n", "a">> >>],
       [key |-> "email", set |-> << <<"e", "m">>, <<"m", "a">> >>],
       [key |-> "url", set |-> << <<"#", "u">> >>] >>,
    << [key |-> "name", set |-> <<>>], [key |-> "email", set |-> <<>>], [key |-> "url", set |-> <<>>] >> }

FullProfile == [name |-> "Ann", email |-> "ann@b.c", url |-> "https://b.c"]
ProfilePool == { FullProfile, [FullProfile EXCEPT !.url = ""] }

FillLists == { <<>>, << <<"*", ".", "b", ".", "c">> >> }

InitFillInputs ==
  /\ blacklistEnabled \in BOOLEAN
  /\ officialBlacklist \in FillLists
  /\ userBlacklist \in FillLists
  /\ checkDomain \in { <<"a", ".", "b", ".", "c">>, <<"a", "b", ".", "c">> }
  /\ checkResult = NotChecked
  /\ cs = IdleCs
  /\ pass = [p \in PassIds |-> IdlePass]
  /\ fields \in DomPool
  /\ profile \in ProfilePool
  /\ passwordFocused \in BOOLEAN

OtherThanFill == <<matchVars, blVars, blSyncVars, syncVars, cs, profile, pageVars>>

\* performFill -> fillInputFields, up to the sending of the domain check
StartPass(p) ==
  /\ pass[p].pc \in {"idle", "done"}
  /\ pass' = [pass EXCEPT ![p] = [pc |-> IF passwordFocused THEN "done" ELSE "checking",
                                  response |-> Rejected, written |-> {}]]
  /\ UNCHANGED <<fields, passwordFocused, OtherThanFill>>

\* the .then / .catch of the domain check
DomainResponse(p) ==
  /\ pass[p].pc = "checking"
  /\ \E response \in {HandlerResponse, HandlerFailed, Rejected} :
       pass' = [pass EXCEPT ![p].response = response,
                            ![p].pc = IF GateOpen(response) THEN "userData" ELSE "done"]
  /\ UNCHANGED <<fields, passwordFocused, OtherThanFill>>

\* the three getEncryptedStorageData reads and the check of line 343
ReadUserData(p) ==
  /\ pass[p].pc = "userData"
  /\ pass' = [pass EXCEPT ![p].pc = IF profile.name # "" /\ profile.email # "" /\ profile.url # ""
                                      THEN "keywords" ELSE "done"]
  /\ UNCHANGED <<fields, passwordFocused, OtherThanFill>>

\* getKeywordSets resolves and the two loops run
FillPass(p) ==
  /\ pass[p].pc = "keywords"
  /\ \E keywordSets \in KeywordResults :
       LET out == FillFields(fields, keywordSets, profile)
       IN  /\ fields' = out.els
           /\ pass' = [pass EXCEPT ![p].pc = "done", ![p].written = out.written]
  /\ UNCHANGED <<passwordFocused, OtherThanFill>>

FocusChange ==
  /\ passwordFocused' = ~passwordFocused
  /\ UNCHANGED <<pass, fields, OtherThanFill>>

(***************************************************************************)
(* Specifications                                                          *)
(***************************************************************************)
InitSyncIdle ==
  /\ now = 1
  /\ online = TRUE
  /\ connectionType = "wifi"
  /\ store = <<>>
  /\ remote = <<>>
  /\ inv = <<>>
  /\ refreshes = 0
  /\ fetchCount = 0
  /\ msg = IdleMsg

InitContentIdle ==
  /\ cs = IdleCs
  /\ pass = <<>>
  /\ fields = <<>>
  /\ profile = [name |-> "", email |-> "", url |-> ""]
  /\ passwordFocused = FALSE

InitMatch ==
  InitMatchInputs /\ InitBlacklistIdle /\ InitSyncIdle /\ InitContentIdle /\ InitPageIdle

NextMatch == Match

SpecMatch == InitMatch /\ [][NextMatch]_vars

(***************************************************************************)
(* C1: when some attribute of the field is literally present in a role's   *)
(* keyword set and prioritizeExact is on, the result is matched, for a     *)
(* role that holds the attribute, with confidence 1 and method exact,      *)
(* whatever substring, fuzzy or contextual candidates the other roles      *)
(* offer and wherever those roles stand in the iteration order.            *)
(***************************************************************************)
C1_Literal(a) == IF MergeOptions(mOptions).caseSensitive THEN a ELSE toLowerCase(a)

C1_LiteralRoles ==
  { i \in DOMAIN mKeywordSets :
      \E j \in DOMAIN mAttributes :
        /\ mAttributes[j] # <<>>
        /\ \E t \in DOMAIN mKeywordSets[i].set : mKeywordSets[i].set[t] = C1_Literal(mAttributes[j]) }

C1_ExactMatchWins ==
  (mCalled /\ MergeOptions(mOptions).prioritizeExact /\ C1_LiteralRoles # {}) =>
    /\ mResult.matched
    /\ mResult.confidence = <<1, 1>>
    /\ mResult.method = "exact"
    /\ \E i \in C1_LiteralRoles : mResult.fieldType = mKeywordSets[i].key

\* an earlier-iterated role offers a candidate at or above the threshold,
\* a form context is supplied, and the later role's exact match is returned
C1_Witness ==
  /\ mCalled
  /\ MergeOptions(mOptions).prioritizeExact
  /\ "formContext" \in DOMAIN mOptions
  /\ \E i \in C1_LiteralRoles, k \in DOMAIN mKeywordSets :
       /\ k < i
       /\ k \notin C1_LiteralRoles
       /\ \E t \in DOMAIN mKeywordSets[k].set, j \in DOMAIN mAttributes :
            /\ mAttributes[j] # <<>>
            /\ RatGe(stringSimilarity(mAttributes[j], mKeywordSets[k].set[t]), <<7, 10>>)
       /\ mResult.fieldType = mKeywordSets[i].key
       /\ mResult.method = "exact"

InitBlacklist ==
  InitBlacklistInputs /\ InitMatchIdle /\ InitSyncIdle /\ InitContentIdle /\ InitPageIdle

NextBlacklist == CheckDomain

SpecBlacklist == InitBlacklist /\ [][NextBlacklist]_vars

(***************************************************************************)
(* C2: with the blacklist enabled the check answers "not allowed" exactly  *)
(* when some entry of the official or user list covers the lower-cased     *)
(* hostname: an entry "*.s" covers h when h = s or h is some prefix        *)
(* followed by "." and s; a plain entry e covers h when h = e or h is some *)
(* prefix followed by "." and e.  "*.b.c" blocks a.a.b.c and b.c and       *)
(* leaves ab.c allowed.                                                    *)
(***************************************************************************)
C2_Base(e) ==
  IF Len(e) >= 2 /\ e[1] = "*" /\ e[2] = "." THEN SubSeq(e, 3, Len(e)) ELSE e

C2_Covers(e, h) ==
  \/ h = C2_Base(e)
  \/ \E n \in 1..Len(h) : SubSeq(h, n, Len(h)) = <<".">> \o C2_Base(e)

C2_Entries ==
  { officialBlacklist[i] : i \in DOMAIN officialBlacklist } \cup
  { userBlacklist[i] : i \in DOMAIN userBlacklist }

C2_Wild == <<"*", ".", "b", ".", "c">>

C2_BlockedIffCovered ==
  (checkResult.called /\ blacklistEnabled) =>
    /\ (~checkResult.allowed) <=> (\E e \in C2_Entries : C2_Covers(e, toLowerCase(checkDomain)))
    /\ (C2_Entries = {C2_Wild} /\ checkDomain = <<"a", ".", "a", ".", "b", ".", "c">>)
         => ~checkResult.allowed
    /\ (C2_Entries = {C2_Wild} /\ checkDomain = <<"b", ".", "c">>) => ~checkResult.allowed
    /\ (C2_Entries = {C2_Wild} /\ checkDomain = <<"a", "b", ".", "c">>) => checkResult.allowed

\* the wildcard entry alone, in the user list, blocks its own base domain
C2_Witness ==
  /\ checkResult.called
  /\ blacklistEnabled
  /\ officialBlacklist = <<>>
  /\ userBlacklist = <<C2_Wild>>
  /\ checkDomain = <<"b", ".", "c">>
  /\ ~checkResult.allowed

InitFill ==
  InitFillInputs /\ InitBlacklistSyncIdle /\ InitMatchIdle /\ InitSyncIdle /\ InitPageIdle

NextFill ==
  \/ \E p \in PassIds : StartPass(p)
  \/ \E p \in PassIds : DomainResponse(p)
  \/ \E p \in PassIds : ReadUserData(p)
  \/ \E p \in PassIds : FillPass(p)
  \/ FocusChange

SpecFill == InitFill /\ [][NextFill]_vars

(***************************************************************************)
(* C3: a fill pass writes a value to a form field only after its own       *)
(* domain-check response has arrived with success = true and allowed =     *)
(* true; a pass whose check is rejected, fails or answers "not allowed"    *)
(* writes nothing.                                                         *)
(***************************************************************************)
C3_NoWriteWithoutAllowed ==
  \A p \in PassIds :
    pass[p].written # {} =>
      /\ pass[p].pc \notin {"idle", "checking"}
      /\ pass[p].response.arrived
      /\ pass[p].response.success
      /\ pass[p].response.allowed

\* one pass, whose check was answered "allowed", wrote; the other pass,
\* whose check failed, ended without writing
C3_Witness ==
  /\ pass[1].pc = "done"
  /\ pass[1].written # {}
  /\ pass[1].response.allowed
  /\ pass[2].pc = "done"
  /\ pass[2].response.arrived
  /\ ~pass[2].response.success
  /\ pass[2].written = {}

InitSync ==
  InitSyncInputs /\ InitMatchIdle /\ InitBlacklistIdle /\ InitContentIdle /\ InitPageIdle

NextSync ==
  \/ \E i \in InvIds : StartSync(i)
  \/ \E i \in InvIds : ReadSettings(i)
  \/ \E i \in InvIds : SettingsReadFails(i)
  \/ \E i \in InvIds : ReadValidators(i)
  \/ \E i \in InvIds : OnResponse(i)
  \/ \E i \in InvIds : Touch304(i)
  \/ \E i \in InvIds : Remove404(i)
  \/ \E i \in InvIds : SaveHeaders(i)
  \/ \E i \in InvIds : ParseBody(i)
  \/ \E i \in InvIds : SaveCache(i)
  \/ \E i \in InvIds : SaveLastSync(i)
  \/ \E i \in InvIds : Finish(i)
  \/ Tick
  \/ RemoteUpdate
  \/ NetworkChange

SpecSync == InitSync /\ [][NextSync]_vars

\* a call starts when the handler of an earlier request is over: the message
\* and the fetch both time out after 10 s
InitKeywords ==
  /\ InitSyncFrom({NoCache, PartialCache})
  /\ InitMatchIdle
  /\ InitBlacklistIdle
  /\ InitContentIdle
  /\ InitPageIdle

NextKeywords ==
  \/ (msg.pc = "idle" /\ CallGetKeywordSets)
  \/ CsReadCache
  \/ CsCacheReadFails
  \/ CsRequest
  \/ CsRequestRejected
  \/ HandlerAfterSync
  \/ HandlerReadCache
  \/ HandlerLocal
  \/ CsReply
  \/ CsTimeout
  \/ MsgDropped
  \/ CsDefault
  \/ CsFinish
  \/ ReadSettings("message")
  \/ SettingsReadFails("message")
  \/ ReadValidators("message")
  \/ OnResponse("message")
  \/ Touch304("message")
  \/ Remove404("message")
  \/ SaveHeaders("message")
  \/ ParseBody("message")
  \/ SaveCache("message")
  \/ SaveLastSync("message")
  \/ Tick
  \/ RemoteUpdate
  \/ NetworkChange

SpecKeywords == InitKeywords /\ [][NextKeywords]_vars

(***************************************************************************)
(* The same chain with the refreshes of one instant counted                *)
(***************************************************************************)
InitRefresh == InitKeywords

NextRefresh ==
  \/ (msg.pc = "idle" /\ CallGetKeywordSets)
  \/ CsReadCache
  \/ CsCacheReadFails
  \/ CsRequestCounted
  \/ CsRequestRejected
  \/ HandlerAfterSync
  \/ HandlerReadCache
  \/ HandlerLocal
  \/ CsReply
  \/ CsTimeout
  \/ MsgDropped
  \/ CsDefault
  \/ CsFinish
  \/ ReadSettings("message")
  \/ SettingsReadFails("message")
  \/ ReadValidators("message")
  \/ OnResponse("message")
  \/ Touch304("message")
  \/ Remove404("message")
  \/ SaveHeaders("message")
  \/ ParseBody("message")
  \/ SaveCache("message")
  \/ SaveLastSync("message")
  \/ Tick
  \/ RemoteUpdate
  \/ NetworkChange

SpecRefresh == InitRefresh /\ [][NextRefresh]_vars

(***************************************************************************)
(* C4: when a sync invocation ends after a 2xx response, either the whole  *)
(* update went through (it reports success) or it changed nothing in       *)
(* storage; a body that fails parsing or validation leaves the stored      *)
(* validators as they were.                                                *)
(***************************************************************************)
C4_AllOrNothing ==
  \A i \in InvIds :
    (inv[i].pc = "done" /\ inv[i].response.kind = "200")
      => (inv[i].result.success \/ inv[i].wrote = {})

(***************************************************************************)
(* C9: sync attempts are serialized: no two invocations are at the same    *)
(* time between reading the settings and finishing their writes.           *)
(***************************************************************************)
C9_Serialized ==
  \A i, j \in InvIds : (Active(i) /\ Active(j)) => i = j

(***************************************************************************)
(* C6: a get-or-sync-keywords request whose sync ended with 304 is         *)
(* answered with the data of the stored snapshot, whatever its age.        *)
(***************************************************************************)
C6_AnsweredWithSnapshot ==
  (msg.pc = "responded" /\ msg.sync = "not updated" /\ store.cache # NoCache)
    => (msg.response.success /\ msg.response.data = store.cache.data)

(***************************************************************************)
(* C7: getKeywordSets that finds the stored snapshot past the TTL, and     *)
(* whose sync fails or is skipped, returns the bundled default (empty sets *)
(* when that cannot be loaded); the expired snapshot is not used.          *)
(***************************************************************************)
SyncBroughtData == cs.attempts >= 1 /\ cs.failure = "none"

C8_AtMostOneFetch ==
  (refreshes \in 1..2 /\ store.lastSync = now /\ inv["message"].pc = "fetching")
    => fetchCount <= 1

(***************************************************************************)
(* C10: a refresh all of whose attempts fail with a transient error makes  *)
(* exactly MAX_RETRIES + 1 attempts before it falls through to the next    *)
(* tier.                                                                   *)
(***************************************************************************)
C10_FourAttempts ==
  (cs.pc \in {"default", "returned"} /\ cs.failure = "transient")
    => cs.attempts = MAX_RETRIES + 1

(***************************************************************************)
(* The two conditional syncs (keywords by the timer, official blacklist),  *)
(* one at a time: they share no storage key, only the clock                *)
(***************************************************************************)
InitConditional ==
  /\ InitSyncInputs
  /\ InitBlacklistSyncInputs
  /\ InitFilterIdle
  /\ InitMatchIdle
  /\ InitContentIdle
  /\ InitPageIdle

NextConditional ==
  \/ (binv.pc = "idle" /\ StartSync("timer"))
  \/ ReadSettings("timer")
  \/ SettingsReadFails("timer")
  \/ ReadValidators("timer")
  \/ OnResponse("timer")
  \/ Touch304("timer")
  \/ Remove404("timer")
  \/ SaveHeaders("timer")
  \/ ParseBody("timer")
  \/ SaveCache("timer")
  \/ SaveLastSync("timer")
  \/ Finish("timer")
  \/ (inv["timer"].pc = "idle" /\ StartBlacklistSync)
  \/ BlacklistReadCache
  \/ BlacklistOffline
  \/ BlacklistReadStatus
  \/ BlacklistStatusReadFails
  \/ BlacklistReadValidators
  \/ BlacklistOnResponse
  \/ BlacklistTouch304
  \/ BlacklistRemove404
  \/ BlacklistSaveHeaders
  \/ BlacklistParseText
  \/ BlacklistSaveList
  \/ BlacklistSaveCache
  \/ BlacklistFinish
  \/ Tick
  \/ NetworkChange

SpecConditional == InitConditional /\ [][NextConditional]_vars

(***************************************************************************)
(* C5: a non-forced sync whose conditional fetch returns 304 changes       *)
(* neither the stored snapshot nor the stored validators, sets the last    *)
(* sync time to the current time, and ends in success without new data     *)
(* (the keyword sync returns no data, the blacklist sync returns the list  *)
(* that was stored).                                                       *)
(***************************************************************************)
C5_NotModified ==
  /\ \A i \in InvIds :
       (inv[i].pc = "done" /\ ~inv[i].forceSync /\ inv[i].response.kind = "304")
         => /\ inv[i].wrote \subseteq {"lastSync"}
            /\ store.lastSync = now
            /\ inv[i].result.success
            /\ inv[i].result.data = NoData
  /\ (binv.pc = "done" /\ ~binv.forceSync /\ binv.response.kind = "304")
       => /\ binv.wrote \subseteq {"lastSync"}
          /\ bstore.lastSync = now
          /\ binv.result.ended = "returned"
          /\ binv.result.blacklist = officialBlacklist

\* a keyword sync answered 304 a day after the snapshot was stored
C5_Witness ==
  /\ inv["timer"].pc = "done"
  /\ inv["timer"].response.kind = "304"
  /\ inv["timer"].wrote = {"lastSync"}
  /\ store.cache # NoCache
  /\ store.cache.timestamp < now
  /\ store.lastSync = now

(***************************************************************************)
(* C11: the keyword sync never rejects: every invocation resolves to an    *)
(* outcome with a message, and data only on success.  The official         *)
(* blacklist sync returns a list or throws an Error with a message; a      *)
(* failure of it carries no list.                                          *)
(***************************************************************************)
KeywordOutcomeStructured ==
  \A i \in InvIds :
    inv[i].pc = "done"
      => /\ inv[i].result.ended = "returned"
         /\ inv[i].result.message # ""
         /\ (inv[i].result.data # NoData => inv[i].result.success)

NoTierGaveData ==
  /\ cs.tier = "default"
  /\ cs.defaultKeywordSets # Bundled

C12_AlwaysThreeRoles ==
  cs.pc = "returned"
    => /\ cs.result # NoData
       /\ AllRoles \subseteq cs.result.roles
       /\ cs.tier \in {"cache", "background", "default"}
       /\ NoTierGaveData => cs.result = EmptySets

\* everything failed: the cache read, the message and the bundled file
C12_Witness ==
  /\ cs.pc = "returned"
  /\ cs.cacheRead = "failed"
  /\ cs.failure = "unanswered"
  /\ cs.tier = "default"
  /\ cs.result = EmptySets

(***************************************************************************)
(* C13: getKeywordSets tries its tiers in the order cache, background,     *)
(* bundled default, each only when the one before gave nothing: with a     *)
(* fresh, valid snapshot the cache read answers, no message is sent and no *)
(* sync runs; the bundled default is loaded only after a request to the    *)
(* background brought no data; a snapshot that lacks a role counts as      *)
(* absent and the chain goes on.                                           *)
(***************************************************************************)
C13_TierOrder ==
  cs.cacheRead # ""
    => /\ ((cs.snapshot = "fresh" /\ cs.cacheRead # "failed")
             => (/\ cs.cacheRead = "hit"
                 /\ cs.pc = "returned"
                 /\ cs.tier = "cache"
                 /\ cs.result = store.cache.data
                 /\ cs.attempts = 0
                 /\ msg.pc = "idle"
                 /\ inv["message"].pc = "idle"))
       /\ (cs.snapshot \in {"none", "expired", "invalid"} => cs.cacheRead # "hit")
       /\ (cs.attempts >= 1 => cs.cacheRead \in {"miss", "failed"})
       /\ ((cs.pc = "default" \/ cs.tier = "default") => cs.attempts >= 1)
       /\ (cs.tier = "background" => cs.attempts >= 1)

\* a snapshot without the url role was passed over and the background answered
C13_Witness ==
  /\ cs.pc = "returned"
  /\ cs.snapshot = "invalid"
  /\ cs.cacheRead = "miss"
  /\ cs.tier = "background"
  /\ cs.result = RemoteData(1)

(***************************************************************************)
(* C14: a sync invocation that starts offline, or non-forced with sync     *)
(* disabled, or non-forced with wifi_only set on a connection that is not  *)
(* wifi, is skipped: it sends no request, writes nothing to storage and    *)
(* ends with a skipped outcome that is not reported as an error.           *)
(***************************************************************************)
SkipMessages == {"offline", "disabled", "not wifi"}

\* the conditions of lines 530, 563 and 578; the environment and the
\* settings stay as they were at the start while an invocation is running
SkipCondition(i) ==
  \/ ~online
  \/ ~inv[i].forceSync /\ ~store.syncEnabled
  \/ ~inv[i].forceSync /\ store.networkType = "wifi_only" /\ connectionType # "wifi"

\* the outcome type has no third value: success = false is how the sync
\* reports an error, and what its callers take for one
ReportedAsError(result) == ~result.success

C14_SkipsNoRequestNoWrite ==
  \A i \in InvIds :
    (inv[i].pc = "done" /\ SkipCondition(i) /\ inv[i].result.message # "storage error")
      => /\ inv[i].result.message \in SkipMessages
         /\ inv[i].response = NoResponse
         /\ inv[i].wrote = {}

C14_SkippedNotError ==
  \A i \in InvIds :
    (inv[i].pc = "done" /\ SkipCondition(i) /\ inv[i].result.message # "storage error")
      => /\ inv[i].result.message \in SkipMessages
         /\ inv[i].response = NoResponse
         /\ inv[i].wrote = {}
         /\ ~ReportedAsError(inv[i].result)

(***************************************************************************)
(* C15: a forced sync sends neither If-None-Match nor If-Modified-Since,   *)
(* whatever is stored; a non-forced sync sends each header exactly when    *)
(* its validator is stored, with the stored value, and the stored values   *)
(* are those of the last successful fetch, the one that gave the stored    *)
(* snapshot (keyword sync) or the stored list (official-blacklist sync).   *)
(***************************************************************************)
\* the headers of a request are decided by forceSync and the storage alone
C15_HeadersFromStorage ==
  [][/\ \A i \in InvIds :
          (inv[i].pc # "fetching" /\ inv'[i].pc = "fetching")
            => <<inv'[i].etag, inv'[i].lastModified>>
                 = IF inv'[i].forceSync THEN <<0, 0>> ELSE <<store.etag, store.lastModified>>
     /\ (binv.pc # "fetching" /\ binv'.pc = "fetching")
          => <<binv'.etag, binv'.lastModified>>
               = IF binv'.forceSync THEN <<0, 0>> ELSE <<bstore.etag, bstore.lastModified>>]_vars

\* the validators sent belong to the data that is stored
SentForSnapshot(etag, lastModified) ==
  \A v \in {etag, lastModified} \ {0} :
    store.cache # NoCache /\ store.cache.data = RemoteData(v)

SentForList(etag, lastModified) ==
  \A v \in {etag, lastModified} \ {0} : officialBlacklist = RemoteList(v)

C15_ConditionalHeaders ==
  /\ \A i \in InvIds :
       inv[i].pc = "fetching"
         => /\ inv[i].forceSync => (inv[i].etag = 0 /\ inv[i].lastModified = 0)
            /\ ~inv[i].forceSync
                 => (inv[i].etag = store.etag /\ inv[i].lastModified = store.lastModified)
            /\ SentForSnapshot(inv[i].etag, inv[i].lastModified)
  /\ binv.pc = "fetching"
       => /\ binv.forceSync => (binv.etag = 0 /\ binv.lastModified = 0)
          /\ ~binv.forceSync
               => (binv.etag = bstore.etag /\ binv.lastModified = bstore.lastModified)
          /\ SentForList(binv.etag, binv.lastModified)

(***************************************************************************)
(* C16: a sync attempt answered with 404 ends with no validator stored,    *)
(* nothing but the headers of a later 2xx response stores one again, and   *)
(* an attempt that finds none stored sends neither If-None-Match nor       *)
(* If-Modified-Since: so the next non-forced attempt after a 404 is        *)
(* unconditional.  An attempt that fails with another status, or without   *)
(* any response, leaves the stored validators as they were.                *)
(***************************************************************************)
OtherFailures == {"500", "error", "abort"}

Validators(s) == <<s.etag, s.lastModified>>

C16_KeywordSync ==
  /\ \A i \in InvIds :
       (inv[i].pc # "done" /\ inv'[i].pc = "done")
         => /\ inv'[i].response.kind = "404" => Validators(store') = <<0, 0>>
            /\ inv'[i].response.kind \in OtherFailures
                 => (Validators(store') = Validators(store) /\ "validators" \notin inv'[i].wrote)
  /\ (Validators(store) = <<0, 0>> /\ \A i \in InvIds : inv[i].pc # "saveHeaders")
       => Validators(store') = <<0, 0>>
  /\ \A i \in InvIds :
       (inv[i].pc # "fetching" /\ inv'[i].pc = "fetching" /\ Validators(store) = <<0, 0>>)
         => Validators(inv'[i]) = <<0, 0>>

C16_BlacklistSync ==
  /\ (binv.pc # "done" /\ binv'.pc = "done")
       => /\ binv'.response.kind = "404" => Validators(bstore') = <<0, 0>>
          /\ binv'.response.kind \in OtherFailures
               => (Validators(bstore') = Validators(bstore) /\ "validators" \notin binv'.wrote)
  /\ (Validators(bstore) = <<0, 0>> /\ binv.pc # "saveHeaders")
       => Validators(bstore') = <<0, 0>>
  /\ (binv.pc # "fetching" /\ binv'.pc = "fetching" /\ Validators(bstore) = <<0, 0>>)
       => Validators(binv') = <<0, 0>>

C16_ClearedAfter404 == [][C16_KeywordSync /\ C16_BlacklistSync]_vars

\* a non-forced attempt sent the stored validators, got 404 and removed them
C16_Witness ==
  /\ inv["timer"].pc = "done"
  /\ ~inv["timer"].forceSync
  /\ inv["timer"].response.kind = "404"
  /\ Validators(inv["timer"]) # <<0, 0>>
  /\ "validators" \in inv["timer"].wrote
  /\ Validators(store) = <<0, 0>>

(***************************************************************************)
(* C17: every result of the matcher with matched = true has a confidence   *)
(* of at least the threshold in force; a winner whose confidence is below  *)
(* the threshold is returned with matched = false, its role, method and    *)
(* confidence still in the result.                                         *)
(***************************************************************************)
ThresholdInForce == MergeOptions(mOptions).threshold

C17_MatchedMeetsThreshold ==
  mCalled
    => /\ mResult.matched => RatGe(mResult.confidence, ThresholdInForce)
       /\ RatLt(mResult.confidence, ThresholdInForce) => ~mResult.matched

\* a substring candidate won with a confidence under the threshold
C17_Witness ==
  /\ mCalled
  /\ ~mResult.matched
  /\ mResult.fieldType # ""
  /\ mResult.method = "substring"
  /\ RatGt(mResult.confidence, RatZero)
  /\ RatLt(mResult.confidence, ThresholdInForce)

(***************************************************************************)
(* C18: every result of the matcher has a confidence between 0 and 1,      *)
(* also when the form context applies its form-type and page-URL           *)
(* multipliers to a label that equals a keyword.                           *)
(***************************************************************************)
C18_ConfidenceInUnitInterval ==
  mCalled => (RatLe(RatZero, mResult.confidence) /\ RatLe(mResult.confidence, RatOne))

(***************************************************************************)
(* The matcher on the keyword set {name: author, email: email,             *)
(* url: website}                                                           *)
(***************************************************************************)
Author  == <<"a", "u", "t", "h", "o", "r">>
Email   == <<"e", "m", "a", "i", "l">>
Website == <<"w", "e", "b", "s", "i", "t", "e">>
Emaill  == <<"e", "m", "a", "i", "l", "l">>
Emal    == <<"e", "m", "a", "l">>

ScenarioTokens == [name |-> <<Author>>, email |-> <<Email>>, url |-> <<Website>>]

ScenarioKeywordSets ==
  { [i \in 1..3 |-> [key |-> o[i], set |-> ScenarioTokens[o[i]]]] : o \in RoleOrders }

ScenarioAttrPool ==
  { <<>>, Author, <<"A", "u", "t", "h", "o", "r">>, Email, Emaill, Emal }

ScenarioAttributes ==
  { <<>> } \cup { <<a>> : a \in ScenarioAttrPool } \cup { <<a, b>> : a, b \in ScenarioAttrPool }

InitScenario ==
  /\ mKeywordSets \in ScenarioKeywordSets
  /\ mAttributes \in ScenarioAttributes
  /\ mOptions \in OptionInputs
  /\ mResult = EmptyResult
  /\ mCalled = FALSE
  /\ matchCache = <<>>
  /\ simCall = NoSimilarity
  /\ InitBlacklistIdle
  /\ InitSyncIdle
  /\ InitContentIdle
  /\ InitPageIdle

SpecScenario == InitScenario /\ [][Match]_vars

(***************************************************************************)
(* C19: with the keyword set {name: author, email: email, url: website}    *)
(* and default options, the attribute 'author' gives role name, method     *)
(* exact, confidence 1; the attribute 'emaill' gives role email with a     *)
(* confidence of at least 0.7, by the substring stage (the keyword is      *)
(* contained in the attribute, confidence 5/6 * 0.9 = 0.75), not by the    *)
(* fuzzy stage.                                                            *)
(***************************************************************************)
ResultFor(attribute) ==
  IF mCalled /\ mOptions = <<>> /\ mAttributes = <<attribute>> THEN <<mResult>> ELSE <<>>

AuthorIsExact ==
  \A r \in {ResultFor(Author)[i] : i \in DOMAIN ResultFor(Author)} :
    /\ r.matched
    /\ r.fieldType = "name"
    /\ r.method = "exact"
    /\ r.confidence = RatOne

C19_TypoIsSubstring ==
  /\ AuthorIsExact
  /\ \A r \in {ResultFor(Emaill)[i] : i \in DOMAIN ResultFor(Emaill)} :
       /\ r.matched
       /\ r.fieldType = "email"
       /\ r.method = "substring"
       /\ r.confidence = <<3, 4>>
       /\ RatGe(r.confidence, DEFAULT_OPTIONS.threshold)

\* the claim as stated: the typo is matched by the fuzzy stage
C19_TypoIsFuzzy ==
  /\ AuthorIsExact
  /\ \A r \in {ResultFor(Emaill)[i] : i \in DOMAIN ResultFor(Emaill)} :
       /\ r.matched
       /\ r.fieldType = "email"
       /\ r.method = "fuzzy"
       /\ RatGe(r.confidence, DEFAULT_OPTIONS.threshold)

\* the matcher has answered for the attribute 'emaill'
C19_Witness ==
  /\ ResultFor(Emaill) # <<>>
  /\ mResult.matched
  /\ mResult.fieldType = "email"
  /\ mResult.method = "substring"
  /\ mResult.confidence = <<3, 4>>
  /\ mResult.keyword = <<Email>>

(***************************************************************************)
(* C20: with the blacklist disabled the check allows every hostname, also  *)
(* one that is present verbatim in the official or in the user list.       *)
(***************************************************************************)
C20_DisabledAllowsAll ==
  (checkResult.called /\ ~blacklistEnabled) => checkResult.allowed

\* the hostname is an entry of the official list and is allowed
C20_Witness ==
  /\ checkResult.called
  /\ ~blacklistEnabled
  /\ \E i \in DOMAIN officialBlacklist : officialBlacklist[i] = checkDomain
  /\ checkResult.allowed

\* the same for the user list
C20_ListedByUser ==
  /\ checkResult.called
  /\ ~blacklistEnabled
  /\ \E i \in DOMAIN userBlacklist : userBlacklist[i] = checkDomain
  /\ checkResult.allowed

NextFailOpen ==
  \/ CheckDomain
  \/ CheckDomainFails

SpecFailOpen == InitBlacklist /\ [][NextFailOpen]_vars

(***************************************************************************)
(* C21: the blacklist check fails open: when the read of the blacklist     *)
(* state or the evaluation of an entry throws, the check still resolves,   *)
(* with allowed = true, whatever the switch and the lists hold.            *)
(***************************************************************************)
CheckFailed == checkResult.called /\ "fault" \in DOMAIN checkResult

C21_FailsOpen ==
  CheckFailed
    => /\ "rejected" \notin DOMAIN checkResult
       /\ "allowed" \in DOMAIN checkResult
       /\ checkResult.allowed

\* the read failed for a hostname that the enabled blacklist lists verbatim
C21_Witness ==
  /\ CheckFailed
  /\ checkResult.fault = "status read"
  /\ blacklistEnabled
  /\ \E i \in DOMAIN officialBlacklist : officialBlacklist[i] = checkDomain
  /\ checkResult.allowed

(***************************************************************************)
(* Both syncs, the official list and the blacklist settings of the user    *)
(***************************************************************************)
UserListPool == { <<>>, << <<"b", ".", "c">> >> }

InitLists ==
  /\ InitSyncInputs
  /\ remote.sendsETag /\ remote.sendsLastModified
  /\ InitBlacklistSyncInputs
  /\ blacklistEnabled \in BOOLEAN
  /\ officialBlacklist = <<>>
  /\ userBlacklist \in UserListPool
  /\ checkDomain = <<>>
  /\ checkResult = NotChecked
  /\ InitMatchIdle
  /\ InitContentIdle
  /\ InitPageIdle

NextLists ==
  \/ (binv.pc = "idle" /\ StartSync("timer"))
  \/ ReadSettings("timer")
  \/ SettingsReadFails("timer")
  \/ ReadValidators("timer")
  \/ OnResponse("timer")
  \/ Touch304("timer")
  \/ Remove404("timer")
  \/ SaveHeaders("timer")
  \/ ParseBody("timer")
  \/ SaveCache("timer")
  \/ SaveLastSync("timer")
  \/ Finish("timer")
  \/ (inv["timer"].pc = "idle" /\ StartBlacklistSync)
  \/ BlacklistReadCache
  \/ BlacklistOffline
  \/ BlacklistReadStatus
  \/ BlacklistStatusReadFails
  \/ BlacklistReadValidators
  \/ BlacklistOnResponse
  \/ BlacklistTouch304
  \/ BlacklistRemove404
  \/ BlacklistSaveHeaders
  \/ BlacklistParseText
  \/ BlacklistSaveList
  \/ BlacklistSaveCache
  \/ BlacklistFinish
  \/ BlacklistRemoteUpdate
  \/ NetworkChange

SpecLists == InitLists /\ [][NextLists]_vars

(***************************************************************************)
(* C22: after an official-blacklist sync that got a 2xx response and       *)
(* succeeded, the stored official list is exactly the list parsed from the *)
(* response text: lines split, trimmed, blank lines and lines starting     *)
(* with # or // dropped, entries lower-cased; an entry of the previous     *)
(* list is still there only when the response holds it.                    *)
(***************************************************************************)
SetOfEntries(list) == {list[i] : i \in DOMAIN list}

\* what the two versions of the served file stand for
ExpectedList(v) ==
  IF v = 1 THEN << <<"b", ".", "c">> >>
  ELSE << <<"*", ".", "b", ".", "c">>, <<"c">> >>

BlacklistSyncUpdated ==
  /\ binv.pc = "done"
  /\ binv.response.kind = "200"
  /\ binv.result.ended = "returned"

C22_ReplacedWholesale ==
  BlacklistSyncUpdated
    => /\ officialBlacklist = ExpectedList(binv.response.version)
       /\ binv.result.blacklist = officialBlacklist
       /\ \A e \in SetOfEntries(binv.status) :
            e \in SetOfEntries(officialBlacklist)
              => e \in SetOfEntries(ExpectedList(binv.response.version))

\* the second version of the file replaced a list whose entry it does not hold
C22_Witness ==
  /\ BlacklistSyncUpdated
  /\ binv.status = ExpectedList(1)
  /\ binv.response.version = 2
  /\ officialBlacklist = ExpectedList(2)
  /\ <<"b", ".", "c">> \notin SetOfEntries(officialBlacklist)

(***************************************************************************)
(* C23: no step of a keyword sync or of an official-blacklist sync,        *)
(* whatever its outcome, changes the user blacklist or the enabled flag    *)
(* of the blacklist.                                                       *)
(***************************************************************************)
SyncRunning == inv["timer"].pc # "idle" \/ binv.pc # "idle"

C23_UserSettingsUntouched ==
  [][(SyncRunning \/ SyncRunning')
       => (userBlacklist' = userBlacklist /\ blacklistEnabled' = blacklistEnabled)]_vars

\* an official-blacklist sync stored a new list and the lastSync time beside
\* a user list and a switched-off flag
C23_Witness ==
  /\ BlacklistSyncUpdated
  /\ {"list", "lastSync"} \subseteq binv.wrote
  /\ userBlacklist = << <<"b", ".", "c">> >>
  /\ ~blacklistEnabled

(***************************************************************************)
(* Blacklist settings page: the list of the user                           *)
(***************************************************************************)
MaxUserList == 3   \* entries in the list before an add or an import is still made

\* String.prototype.split(/\s+/) on a trimmed text: the runs without white space
splitWords(text) ==
  LET words[i \in 1..(Len(text) + 1)] ==
        IF i > Len(text) THEN <<>>
        ELSE IF text[i] \in WhiteSpace THEN words[i + 1]
        ELSE LET stops == {j \in i..Len(text) : text[j] \in WhiteSpace} \cup {Len(text) + 1}
                 stop == CHOOSE j \in stops : \A k \in stops : j <= k
             IN  <<SubSeq(text, i, stop - 1)>> \o words[stop]
  IN  words[1]

\* Array.prototype.join('\n')
join(list) ==
  LET joined[i \in 0..Len(list)] ==
        IF i = 0 THEN <<>>
        ELSE IF i = 1 THEN list[1]
        ELSE joined[i - 1] \o <<"\n">> \o list[i]
  IN  joined[Len(list)]

\* the forEach of both operations: a domain is new when the current list
\* does not include it; the list is written only when some domain is new
AppendNew(currentList, domains) ==
  currentList \o SelectSeq(domains, LAMBDA domain : ~Has(currentList, domain))

addUserDomain(currentList, newDomain) ==
  IF trim(newDomain) = <<>> THEN currentList
  ELSE LET words == splitWords(trim(newDomain))
       IN  AppendNew(currentList, [i \in DOMAIN words |-> toLowerCase(words[i])])

\* processFile on the text of a .txt file
processFile(currentList, text) ==
  LET lines == split(text)
      lowered == [i \in DOMAIN lines |-> toLowerCase(trim(lines[i]))]
      domains == SelectSeq(lowered, LAMBDA line : /\ line # <<>>
                                                  /\ ~startsWith(line, <<"#">>)
                                                  /\ ~startsWith(line, <<"/", "/">>))
  IN  AppendNew(currentList, domains)

removeUserDomain(currentList, domain) == SelectSeq(currentList, LAMBDA d : d # domain)

\* what the user types into the add field
AddInputs ==
  { <<"a">>, <<"c">>, <<"A", " ", "a">>, <<" ", "b", " ", " ", "a">>, <<"#", "a">>, <<" ">> }

\* the text files the user imports
FileInputs ==
  { <<"a", "\n", "b">>, <<"#", " ", "x", "\n", "B", "\r", "\n">>, <<"b", "\n", "b">> }

OtherThanUserList ==
  <<blacklistEnabled, officialBlacklist, checkDomain, checkResult, matchVars, blSyncVars,
    syncVars, contentVars, syncRequest, backoff, fetchCall, inserted, timerState, scheduler>>

AddUserDomain ==
  /\ ~roundTrip.done
  /\ Len(userBlacklist) < MaxUserList
  /\ \E newDomain \in AddInputs : userBlacklist' = addUserDomain(userBlacklist, newDomain)
  /\ UNCHANGED <<roundTrip, OtherThanUserList>>

ImportFile ==
  /\ ~roundTrip.done
  /\ Len(userBlacklist) < MaxUserList
  /\ \E text \in FileInputs : userBlacklist' = processFile(userBlacklist, text)
  /\ UNCHANGED <<roundTrip, OtherThanUserList>>

RemoveUserDomain ==
  /\ ~roundTrip.done
  /\ \E i \in DOMAIN userBlacklist :
       userBlacklist' = removeUserDomain(userBlacklist, userBlacklist[i])
  /\ UNCHANGED <<roundTrip, OtherThanUserList>>

\* the clear button: updateSettings({ userBlacklist: [] })
ClearUserList ==
  /\ ~roundTrip.done
  /\ userBlacklist # <<>>
  /\ userBlacklist' = <<>>
  /\ UNCHANGED <<roundTrip, OtherThanUserList>>

\* the export button (shown for a list that is not empty), then the file is
\* imported on a page whose user list is empty
ExportAndReimport ==
  /\ ~roundTrip.done
  /\ userBlacklist # <<>>
  /\ LET content == join(userBlacklist)
     IN  roundTrip' = [done |-> TRUE, from |-> userBlacklist, file |-> content,
                       list |-> processFile(<<>>, content)]
  /\ UNCHANGED <<userBlacklist, OtherThanUserList>>

InitUserList ==
  /\ blacklistEnabled = TRUE
  /\ officialBlacklist = <<>>
  /\ userBlacklist = <<>>
  /\ checkDomain = <<>>
  /\ checkResult = NotChecked
  /\ InitBlacklistSyncIdle
  /\ InitMatchIdle
  /\ InitSyncIdle
  /\ InitContentIdle
  /\ InitPageIdle

NextUserList ==
  \/ AddUserDomain
  \/ ImportFile
  \/ RemoveUserDomain
  \/ ClearUserList
  \/ ExportAndReimport

SpecUserList == InitUserList /\ [][NextUserList]_vars

(***************************************************************************)
(* C24: the user blacklist never holds the same entry twice, whatever      *)
(* adds (of one or several domains), file imports and removals are made,   *)
(* also when one add or one file names a domain more than once.            *)
(***************************************************************************)
C24_NoDuplicates ==
  \A i, j \in DOMAIN userBlacklist : i # j => userBlacklist[i] # userBlacklist[j]

(***************************************************************************)
(* C25: exporting the user blacklist and importing the exported text into  *)
(* an empty user blacklist gives the same set of entries, lower-cased.     *)
(***************************************************************************)
C25_RoundTrip ==
  roundTrip.done
    => SetOfEntries(roundTrip.list)
         = {toLowerCase(roundTrip.from[i]) : i \in DOMAIN roundTrip.from}

(***************************************************************************)
(* Sync settings: updateSyncSettings and its message handler               *)
(***************************************************************************)
MIN_SYNC_INTERVAL == 1   \* hours

SettingsKeys == {"syncEnabled", "syncInterval", "networkType", "keywordsUrl"}

\* new URL(url) does not throw: the text is an absolute URL
ParsesAsURL(url) == url \in {"https://mirror.example/keywords.json"}

\* the requests of the settings page: any subset of the keys
\* the numbers a message can carry for syncInterval: Number(e.target.value)
\* of the settings page is a number or NaN, and NaN arrives as null
Num(n) == [type |-> "number", value |-> n]
NaN    == [type |-> "NaN"]
null   == [type |-> "null"]

\* x || 0
OrZero(x) == IF x.type = "number" /\ x.value # 0 THEN x.value ELSE 0

SettingsRequests ==
  { [keywordsUrl |-> "keywords.json", syncEnabled |-> FALSE, syncInterval |-> Num(12),
     networkType |-> "wifi_only"],
    [keywordsUrl |-> "keywords.json"],
    [keywordsUrl |-> "https://mirror.example/keywords.json", networkType |-> "wifi_only"],
    [keywordsUrl |-> ""],
    [syncEnabled |-> FALSE],
    [syncEnabled |-> TRUE],
    [syncInterval |-> Num(0)],
    [syncInterval |-> Num(-3)],
    [syncInterval |-> NaN],
    [syncInterval |-> null],
    <<>> }

\* an update that stores the interval of the request as it is
updateSyncSettingsUnclamped(settings) ==
  IF "keywordsUrl" \in DOMAIN settings /\ settings.keywordsUrl # ""
       /\ ~ParsesAsURL(settings.keywordsUrl)
    THEN [thrown |-> TRUE, updates |-> <<>>]
    ELSE [thrown |-> FALSE,
          updates |-> [k \in DOMAIN settings |->
                         IF k = "syncInterval" THEN OrZero(settings[k]) ELSE settings[k]]]

\* an update that logs an invalid URL, leaves it out and goes on
updateSyncSettingsLenient(settings) ==
  [thrown |-> FALSE,
   updates |-> [k \in {j \in DOMAIN settings :
                         j = "keywordsUrl"
                           => (settings[j] = "" \/ ParsesAsURL(settings[j]))} |->
                  IF k = "syncInterval"
                    THEN Max(OrZero(settings[k]), MIN_SYNC_INTERVAL)
                  ELSE settings[k]]]

\* updateSyncSettings up to its storage write: the updates object, or the
\* error thrown for a keywordsUrl that is neither empty nor a URL
updateSyncSettings(settings) ==
  IF "keywordsUrl" \in DOMAIN settings /\ settings.keywordsUrl # ""
       /\ ~ParsesAsURL(settings.keywordsUrl)
    THEN [thrown |-> TRUE, updates |-> <<>>]
    ELSE [thrown |-> FALSE,
          updates |-> [k \in DOMAIN settings |->
                         IF k = "syncInterval"
                           THEN Max(OrZero(settings[k]), MIN_SYNC_INTERVAL)
                         ELSE settings[k]]]

StoredSyncSettings == [k \in SettingsKeys |-> store[k]]

OtherThanSettings == <<matchVars, blVars, blSyncVars, contentVars, roundTrip, backoff,
    fetchCall, inserted, scheduler>>

\* setInterval returns a positive id that no live timer has
NewTimerId(ts) ==
  CHOOSE n \in 1..(Cardinality(ts.timers) + 1) :
    /\ \A t \in ts.timers : t.id # n
    /\ \A m \in 1..(n - 1) : \E t \in ts.timers : t.id = m

\* getSyncSettingsFromStorage: a stored interval that is falsy reads as the default
getSyncSettingsFromStorage ==
  [syncEnabled |-> store.syncEnabled # FALSE,
   syncInterval |-> IF store.syncInterval # 0 THEN store.syncInterval
                    ELSE DEFAULT_SYNC_INTERVAL,
   networkType |-> store.networkType]

\* the lines 250-254: clearInterval(syncIntervalId) when there is one
clearSyncInterval(ts) ==
  IF ts.syncIntervalId # 0
    THEN [ts EXCEPT !.timers = {t \in @ : t.id # ts.syncIntervalId}, !.syncIntervalId = 0]
    ELSE ts

\* a setup that forgets the old timer without clearing it
setupSyncIntervalOverOld(ts, interval) ==
  LET effectiveInterval ==
        Max(IF interval # 0 THEN interval ELSE DEFAULT_SYNC_INTERVAL, MIN_SYNC_INTERVAL)
  IN  [ts EXCEPT !.timers = @ \cup {[id |-> NewTimerId(ts), period |-> effectiveInterval]},
                 !.syncIntervalId = NewTimerId(ts)]

\* setupSyncInterval: the old timer is cleared, the new one has the effective period
setupSyncInterval(ts, interval) ==
  LET cleared == clearSyncInterval(ts)
      effectiveInterval ==
        Max(IF interval # 0 THEN interval ELSE DEFAULT_SYNC_INTERVAL, MIN_SYNC_INTERVAL)
  IN  [cleared EXCEPT
         !.timers = @ \cup {[id |-> NewTimerId(cleared), period |-> effectiveInterval]},
         !.syncIntervalId = NewTimerId(cleared)]

\* initializeKeywordSync is called: it runs to its settings read
InitializeCalled(ts) ==
  /\ \E r \in RunIds : ts.runs[r].pc = "idle"
  /\ LET r == IF ts.runs["run1"].pc = "idle" THEN "run1" ELSE "run2"
     IN  timerState' = [ts EXCEPT !.runs[r] = [pc |-> "settings", syncInterval |-> 0]]

\* the forced sync the handler awaits once the settings are stored
ForcedSyncStarts ==
  /\ BeginSync("manual", TRUE)
  /\ UNCHANGED fetchCount

\* the updateSyncSettings message arrives; the handler runs to its first await
ReceiveUpdateSyncSettings ==
  /\ syncRequest.pc = "idle"
  /\ inv["manual"].pc = "idle"
  /\ timerState.onInstalled # "syncing"
  /\ \E settings \in SettingsRequests :
       LET r == updateSyncSettings(settings)
           started == [NoSyncRequest EXCEPT !.settings = settings, !.updates = r.updates,
                                            !.before = StoredSyncSettings]
       IN  IF r.thrown
             THEN /\ syncRequest' = [started EXCEPT !.pc = "responded",
                                                    !.response = [success |-> FALSE,
                                                                  error |-> "invalid url"]]
                  /\ UNCHANGED <<inv, fetchCount>>
           ELSE IF DOMAIN r.updates = {}
             THEN /\ syncRequest' = [started EXCEPT !.pc = "syncing", !.synced = TRUE]
                  /\ ForcedSyncStarts
           ELSE /\ syncRequest' = [started EXCEPT !.pc = "saving"]
                /\ UNCHANGED <<inv, fetchCount>>
  /\ UNCHANGED <<now, online, connectionType, store, remote, refreshes, msg, timerState,
                 OtherThanSettings>>

\* chrome.storage.local.set(updates) succeeds, the forced sync starts
SyncSettingsStored ==
  /\ syncRequest.pc = "saving"
  /\ store' = [k \in DOMAIN store |->
                 IF k \in DOMAIN syncRequest.updates THEN syncRequest.updates[k] ELSE store[k]]
  /\ syncRequest' = [syncRequest EXCEPT !.pc = "syncing", !.synced = TRUE]
  /\ ForcedSyncStarts
  /\ UNCHANGED <<now, online, connectionType, remote, refreshes, msg, timerState,
                 OtherThanSettings>>

\* chrome.storage.local.set fails: the promise rejects, the handler answers
SyncSettingsStoreFails ==
  /\ syncRequest.pc = "saving"
  /\ syncRequest' = [syncRequest EXCEPT !.pc = "responded",
                                        !.response = [success |-> FALSE,
                                                      error |-> "storage error"]]
  /\ UNCHANGED <<syncVars, timerState, OtherThanSettings>>

\* the forced sync has settled: initializeKeywordSync(), sendResponse({ success: true })
SyncSettingsAnswered ==
  /\ syncRequest.pc = "syncing"
  /\ inv["manual"].pc = "done"
  /\ inv' = [inv EXCEPT !["manual"] = IdleInv]
  /\ InitializeCalled(timerState)
  /\ syncRequest' = [syncRequest EXCEPT !.pc = "responded",
                                        !.response = [success |-> TRUE, error |-> ""]]
  /\ UNCHANGED <<now, online, connectionType, store, remote, refreshes, fetchCount, msg,
                 OtherThanSettings>>

\* the settings page has the response
SyncSettingsClosed ==
  /\ syncRequest.pc = "responded"
  /\ syncRequest' = NoSyncRequest
  /\ UNCHANGED <<syncVars, timerState, OtherThanSettings>>

InstallReasons == {"install", "update", "chrome_update"}

\* chrome.runtime.onInstalled: a forced sync after an install or an update,
\* initializeKeywordSync in every case
OnInstalled ==
  /\ timerState.onInstalled = "idle"
  /\ \E reason \in InstallReasons :
       IF reason \in {"install", "update"}
         THEN /\ syncRequest.pc = "idle"
              /\ BeginSync("manual", TRUE)
              /\ timerState' = [timerState EXCEPT !.onInstalled = "syncing"]
         ELSE /\ InitializeCalled([timerState EXCEPT !.onInstalled = "done"])
              /\ UNCHANGED inv
  /\ UNCHANGED <<now, online, connectionType, store, remote, refreshes, fetchCount, msg,
                 syncRequest, OtherThanSettings>>

\* the forced sync of onInstalled has settled
OnInstalledSynced ==
  /\ timerState.onInstalled = "syncing"
  /\ inv["manual"].pc = "done"
  /\ inv' = [inv EXCEPT !["manual"] = IdleInv]
  /\ InitializeCalled([timerState EXCEPT !.onInstalled = "done"])
  /\ UNCHANGED <<now, online, connectionType, store, remote, refreshes, fetchCount, msg,
                 syncRequest, OtherThanSettings>>

\* initializeKeywordSync after its settings read: the timer is set up or cleared
InitializeReadsSettings(r) ==
  /\ timerState.runs[r].pc = "settings"
  /\ LET settings == getSyncSettingsFromStorage
         read == [timerState EXCEPT !.failed = FALSE]
     IN  IF settings.syncEnabled
           THEN timerState' =
                     [setupSyncInterval(read, settings.syncInterval) EXCEPT
                       !.runs[r] = [pc |-> "lastSync", syncInterval |-> settings.syncInterval]]
           ELSE timerState' = [clearSyncInterval(read) EXCEPT !.runs[r] = NoRun]
  /\ UNCHANGED <<syncVars, syncRequest, OtherThanSettings>>

\* the settings read rejects: the catch of line 258, the timer stays as it was
InitializeSettingsFail(r) ==
  /\ timerState.runs[r].pc = "settings"
  /\ timerState' = [timerState EXCEPT !.failed = TRUE, !.runs[r] = NoRun]
  /\ UNCHANGED <<syncVars, syncRequest, OtherThanSettings>>

\* getLastSyncTime resolves: a sync that is overdue is started and awaited
InitializeReadsLastSync(r) ==
  /\ timerState.runs[r].pc = "lastSync"
  /\ IF store.lastSync # 0 /\ now - store.lastSync > timerState.runs[r].syncInterval
       THEN /\ BeginSync("timer", FALSE)
            /\ timerState' = [timerState EXCEPT !.runs[r].pc = "syncing"]
       ELSE /\ timerState' = [timerState EXCEPT !.runs[r] = NoRun]
            /\ UNCHANGED inv
  /\ UNCHANGED <<now, online, connectionType, store, remote, refreshes, fetchCount, msg,
                 syncRequest, OtherThanSettings>>

\* getLastSyncTime rejects: the catch of line 258
InitializeLastSyncFails(r) ==
  /\ timerState.runs[r].pc = "lastSync"
  /\ timerState' = [timerState EXCEPT !.runs[r] = NoRun]
  /\ UNCHANGED <<syncVars, syncRequest, OtherThanSettings>>

\* the awaited sync has settled; the run ends
InitializeSynced(r) ==
  /\ timerState.runs[r].pc = "syncing"
  /\ inv["timer"].pc = "done"
  /\ inv' = [inv EXCEPT !["timer"] = IdleInv]
  /\ timerState' = [timerState EXCEPT !.runs[r] = NoRun]
  /\ UNCHANGED <<now, online, connectionType, store, remote, refreshes, fetchCount, msg,
                 syncRequest, OtherThanSettings>>

InitSettings ==
  /\ InitSyncInputs
  /\ remote.sendsETag /\ remote.sendsLastModified
  /\ InitMatchIdle
  /\ InitBlacklistIdle
  /\ InitContentIdle
  /\ InitPageIdle

InitializeSteps(r) ==
  \/ InitializeReadsSettings(r)
  \/ InitializeSettingsFail(r)
  \/ InitializeReadsLastSync(r)
  \/ InitializeLastSyncFails(r)

KeywordSyncSteps(i) ==
  \/ ReadSettings(i)
  \/ SettingsReadFails(i)
  \/ OnResponse(i)
  \/ Remove404(i)
  \/ SaveHeaders(i)
  \/ ParseBody(i)
  \/ SaveCache(i)
  \/ SaveLastSync(i)

NextSettings ==
  \/ ReceiveUpdateSyncSettings
  \/ SyncSettingsStored
  \/ SyncSettingsStoreFails
  \/ SyncSettingsAnswered
  \/ SyncSettingsClosed
  \/ \E r \in RunIds : InitializeSteps(r)
  \/ KeywordSyncSteps("manual")
  \/ NetworkChange

SpecSettings == InitSettings /\ [][NextSettings]_vars

(***************************************************************************)
(* C26: an updateSyncSettings request whose keywordsUrl is not empty and   *)
(* not a valid URL is answered with an error, none of the settings it      *)
(* carries is stored, and no forced sync is started for it.                *)
(***************************************************************************)
InvalidUrlRequest ==
  /\ syncRequest.pc # "idle"
  /\ "keywordsUrl" \in DOMAIN syncRequest.settings
  /\ syncRequest.settings.keywordsUrl # ""
  /\ ~ParsesAsURL(syncRequest.settings.keywordsUrl)

C26_InvalidUrlRejected ==
  InvalidUrlRequest
    => /\ syncRequest.pc = "responded"
       /\ ~syncRequest.response.success
       /\ syncRequest.response.error = "invalid url"
       /\ StoredSyncSettings = syncRequest.before
       /\ ~syncRequest.synced
       /\ inv["manual"].pc = "idle"

\* the rejected request carried all four settings, each different from what is stored
C26_Witness ==
  /\ InvalidUrlRequest
  /\ syncRequest.pc = "responded"
  /\ DOMAIN syncRequest.settings = SettingsKeys
  /\ \A k \in SettingsKeys \ {"syncInterval"} : syncRequest.settings[k] # store[k]
  /\ syncRequest.settings.syncInterval # Num(store.syncInterval)
  /\ ~syncRequest.response.success

(***************************************************************************)
(* Memoized matching: MatchCache and smartMatchKeywords                    *)
(***************************************************************************)
MAX_SIZE == 500

\* UTF-16 code unit order of the characters the attributes are made of
CodeUnits ==
  <<"A", "B", "C", "D", "E", "L", "M", "N", "R", "U",
    "a", "b", "c", "d", "e", "l", "m", "n", "r", "u">>

CodeUnit(c) == CHOOSE i \in DOMAIN CodeUnits : CodeUnits[i] = c

\* s sorts before t in the default order of Array.prototype.sort
SortsBefore(s, t) ==
  \E i \in 1..(Min(Len(s), Len(t)) + 1) :
    /\ SubSeq(s, 1, i - 1) = SubSeq(t, 1, i - 1)
    /\ \/ i > Len(s) /\ i <= Len(t)
       \/ i <= Len(s) /\ i <= Len(t) /\ CodeUnit(s[i]) < CodeUnit(t[i])

\* [...attributes].sort()
sort(list) ==
  LET sorted[i \in 0..Len(list)] ==
        IF i = 0 THEN <<>>
        ELSE LET prev == sorted[i - 1]
                 k == Cardinality({j \in DOMAIN prev : ~SortsBefore(list[i], prev[j])})
             IN  SubSeq(prev, 1, k) \o <<list[i]>> \o SubSeq(prev, k + 1, Len(prev))
  IN  sorted[Len(list)]

\* Array.prototype.join(separator)
joinWith(list, separator) ==
  LET joined[i \in 0..Len(list)] ==
        IF i = 0 THEN <<>>
        ELSE IF i = 1 THEN list[1]
        ELSE joined[i - 1] \o <<separator>> \o list[i]
  IN  joined[Len(list)]

\* the option fields that JSON.stringify writes into the key (absent ones are left out)
KeyedOptions == {"threshold", "enableFuzzy", "enableSubstring", "caseSensitive"}

\* MatchCache.createKey: `${sortedAttrs}:${optionsKey}`
createKey(attributes, options) ==
  [sortedAttrs |-> joinWith(SelectSeq(sort(attributes), LAMBDA a : a # <<>>), "|"),
   optionsKey  |-> [k \in (DOMAIN options) \cap KeyedOptions |-> options[k]]]

\* MatchCache.get: the entry of the key, if any
CacheGet(cache, attributes, options) ==
  LET key == createKey(attributes, options)
      hits == {i \in DOMAIN cache : cache[i].key = key}
  IN  IF hits = {} THEN [found |-> FALSE, result |-> EmptyResult]
      ELSE [found |-> TRUE, result |-> cache[CHOOSE i \in hits : TRUE].result]

\* a cache that makes room by deleting its oldest entry only
CacheSetDroppingOne(cache, attributes, options, result) ==
  LET key == createKey(attributes, options)
      kept == IF Len(cache) >= MAX_SIZE THEN Tail(cache) ELSE cache
  IN  Append(kept, [key |-> key, result |-> result])

\* MatchCache.set: at MAX_SIZE entries the oldest half is deleted first
CacheSet(cache, attributes, options, result) ==
  LET key == createKey(attributes, options)
      kept == IF Len(cache) >= MAX_SIZE
                THEN SubSeq(cache, (MAX_SIZE \div 2) + 1, Len(cache))
                ELSE cache
  IN  IF \E i \in DOMAIN kept : kept[i].key = key
        THEN [i \in DOMAIN kept |->
                IF kept[i].key = key THEN [key |-> key, result |-> result] ELSE kept[i]]
        ELSE Append(kept, [key |-> key, result |-> result])

\* smartMatchKeywords: the cached result of the key if there is one, else
\* the result of enhancedMatchKeywords
smartMatchKeywords(cache, keywordSets, attributes, options) ==
  LET cachedResult == CacheGet(cache, attributes, options)
  IN  IF cachedResult.found THEN cachedResult.result
      ELSE enhancedMatchKeywords(keywordSets, attributes, options)

\* the cache smartMatchKeywords leaves: a computed result is stored under the key
CacheAfterCall(cache, attributes, options, result) ==
  IF CacheGet(cache, attributes, options).found THEN cache
  ELSE CacheSet(cache, attributes, options, result)

\* the snapshot before and after a sync replaced it
MemoKeywordSets ==
  { << [key |-> "name",  set |-> << <<"a", "b", "c", "d">> >>],
       [key |-> "email", set |-> <<>>],
       [key |-> "url",   set |-> <<>>] >>,
    << [key |-> "name",  set |-> <<>>],
       [key |-> "email", set |-> << <<"a", "b", "c", "d">> >>],
       [key |-> "url",   set |-> << <<"a", "b">> >>] >> }

MemoAttributes ==
  { << <<"a", "b", "c", "d">> >>,
    << <<"a", "b", "c">>, <<"A", "b">> >>,
    << <<"A", "b">>, <<>>, <<"a", "b", "c">> >> }

MemoContext ==
  [nearbyLabels |-> << <<"a", "b", "c", "d">> >>, formType |-> "comment", pageUrl |-> {"comment"}]

MemoOptions ==
  { <<>>,
    [prioritizeExact |-> FALSE],
    [formContext |-> MemoContext],
    [enableContextual |-> FALSE, formContext |-> MemoContext] }

\* one call of smartMatchKeywords by a field of some page
SmartMatch ==
  /\ mKeywordSets' \in MemoKeywordSets
  /\ mAttributes' \in MemoAttributes
  /\ mOptions' \in MemoOptions
  /\ mResult' = smartMatchKeywords(matchCache, mKeywordSets', mAttributes', mOptions')
  /\ matchCache' = CacheAfterCall(matchCache, mAttributes', mOptions', mResult')
  /\ mCalled' = TRUE
  /\ UNCHANGED <<simCall, blVars, blSyncVars, syncVars, contentVars, pageVars>>

InitMemo ==
  InitMatchIdle /\ InitBlacklistIdle /\ InitSyncIdle /\ InitContentIdle /\ InitPageIdle

NextMemo == SmartMatch

SpecMemo == InitMemo /\ [][NextMemo]_vars

(***************************************************************************)
(* C27: memoization never changes a result: whatever calls came before,    *)
(* smartMatchKeywords returns what enhancedMatchKeywords returns for the   *)
(* keyword sets, attributes and options of the call.                       *)
(***************************************************************************)
C27_MemoTransparent ==
  mCalled => mResult = enhancedMatchKeywords(mKeywordSets, mAttributes, mOptions)

(***************************************************************************)
(* Similarity Engine: one call of stringSimilarity on any two strings      *)
(***************************************************************************)
MaxStringLen == 3

SimilarityAlphabet == {"a", "b", "A"}

SimilarityStrings == UNION { [1..n -> SimilarityAlphabet] : n \in 0..MaxStringLen }

Similarity ==
  /\ ~simCall.called
  /\ simCall' = [simCall EXCEPT !.called = TRUE,
                                !.value = stringSimilarity(simCall.str1, simCall.str2)]
  /\ UNCHANGED <<mKeywordSets, mAttributes, mOptions, mResult, mCalled, matchCache, blVars,
                 blSyncVars, syncVars, contentVars, pageVars>>

InitSimilarity ==
  /\ mKeywordSets = <<>>
  /\ mAttributes = <<>>
  /\ mOptions = <<>>
  /\ mResult = EmptyResult
  /\ mCalled = FALSE
  /\ matchCache = <<>>
  /\ simCall \in { [NoSimilarity EXCEPT !.str1 = a, !.str2 = b] : a, b \in SimilarityStrings }
  /\ InitBlacklistIdle
  /\ InitSyncIdle
  /\ InitContentIdle
  /\ InitPageIdle

NextSimilarity == Similarity

SpecSimilarity == InitSimilarity /\ [][NextSimilarity]_vars

(***************************************************************************)
(* C28: a string is fully similar to itself, two empty strings are fully   *)
(* similar, and a non-empty string and the empty string have similarity 0  *)
(* in either argument order.                                               *)
(***************************************************************************)
C28_SelfAndEmpty ==
  simCall.called =>
    /\ simCall.str1 = simCall.str2 => simCall.value = RatOne
    /\ (simCall.str1 = <<>> /\ simCall.str2 = <<>>) => simCall.value = RatOne
    /\ (simCall.str1 = <<>> /\ simCall.str2 # <<>>) => simCall.value = RatZero
    /\ (simCall.str1 # <<>> /\ simCall.str2 = <<>>) => simCall.value = RatZero

\* a string of several characters, upper and lower case, compared with itself
C28_Witness ==
  /\ simCall.called
  /\ simCall.str1 = simCall.str2
  /\ Len(simCall.str1) > 1
  /\ \E i \in DOMAIN simCall.str1 : simCall.str1[i] = "A"
  /\ simCall.value = RatOne

(***************************************************************************)
(* C29: the similarity lies between 0 and 1, is the same in both argument  *)
(* orders and for every letter case of the arguments; for two different    *)
(* strings of which one contains the other it is 0.9 * min(len)/max(len),  *)
(* and otherwise 1 - (edit distance)/max(len). Strings are compared after  *)
(* case folding; a change of case in one argument at a time, from every    *)
(* pair of strings, covers a change in both.                               *)
(***************************************************************************)
\* the strings that differ from s in letter case only
CaseVariants(s) ==
  { t \in [1..Len(s) -> SimilarityAlphabet] : toLowerCase(t) = toLowerCase(s) }

\* the edit distance by its recurrence on the first characters
RECURSIVE EditDistance(_, _)
EditDistance(a, b) ==
  IF a = <<>> THEN Len(b)
  ELSE IF b = <<>> THEN Len(a)
  ELSE IF Head(a) = Head(b) THEN EditDistance(Tail(a), Tail(b))
  ELSE 1 + Min(EditDistance(Tail(a), Tail(b)),
               Min(EditDistance(Tail(a), b), EditDistance(a, Tail(b))))

C29_Expected(a, b) ==
  LET fa == toLowerCase(a)
      fb == toLowerCase(b)
      longest == Max(Len(fa), Len(fb))
  IN  IF fa # fb /\ (includes(fa, fb) \/ includes(fb, fa))
        THEN Rat(9 * Min(Len(fa), Len(fb)), 10 * longest)
        ELSE Rat(longest - EditDistance(fa, fb), longest)

C29_SimilarityContract ==
  simCall.called =>
    /\ RatLe(RatZero, simCall.value)
    /\ RatLe(simCall.value, RatOne)
    /\ simCall.value = stringSimilarity(simCall.str2, simCall.str1)
    /\ \A x \in CaseVariants(simCall.str1) : stringSimilarity(x, simCall.str2) = simCall.value
    /\ \A y \in CaseVariants(simCall.str2) : stringSimilarity(simCall.str1, y) = simCall.value
    /\ (simCall.str1 # <<>> \/ simCall.str2 # <<>>)
         => simCall.value = C29_Expected(simCall.str1, simCall.str2)

\* strings of different case, neither containing the other: the distance decides
C29_Witness ==
  /\ simCall.called
  /\ \E i \in DOMAIN simCall.str1 : simCall.str1[i] = "A"
  /\ ~includes(toLowerCase(simCall.str1), toLowerCase(simCall.str2))
  /\ ~includes(toLowerCase(simCall.str2), toLowerCase(simCall.str1))
  /\ RatLt(RatZero, simCall.value)
  /\ RatLt(simCall.value, RatOne)

\* one string contains the other after case folding only
C29_ContainmentWitness ==
  /\ simCall.called
  /\ simCall.str1 = <<"A", "b">>
  /\ simCall.str2 = <<"b", "a", "b">>
  /\ simCall.value = <<3, 5>>

(***************************************************************************)
(* Keyword Store: getBackoffDelay, the wait before a retry                 *)
(***************************************************************************)
INITIAL_DELAY == 1000    \* milliseconds
MAX_DELAY     == 10000   \* milliseconds
JITTER_FACTOR == <<1, 4>>

RandomSteps == 20   \* Math.random() takes the values n / RandomSteps, 0 <= n < RandomSteps

RandomValues == { Rat(n, RandomSteps) : n \in 0..(RandomSteps - 1) }

\* Math.min(MAX_DELAY, INITIAL_DELAY * Math.pow(2, attempt))
exponentialDelay(attempt) == Min(MAX_DELAY, INITIAL_DELAY * 2^attempt)

\* x + y for an integer x and a rational y
PlusRat(x, y) == Rat(x * y[2] + y[1], y[2])

\* a delay whose jitter spans twice the jitter factor
getBackoffDelayWide(attempt, random) ==
  LET jitter == Rat(exponentialDelay(attempt) * JITTER_FACTOR[1] * (2 * random[1] - random[2]) * 4,
                    JITTER_FACTOR[2] * random[2])
      delay == PlusRat(exponentialDelay(attempt), jitter)
  IN  IF RatLt(delay, RatZero) THEN RatZero ELSE delay

\* entrypoints/utils/keywordService.ts, the module of the content script:
\* jitter = exponentialDelay * JITTER_FACTOR * (Math.random() - 0.5) * 2
getBackoffDelay(attempt, random) ==
  LET jitter == Rat(exponentialDelay(attempt) * JITTER_FACTOR[1] * (2 * random[1] - random[2]),
                    JITTER_FACTOR[2] * random[2])
      delay == PlusRat(exponentialDelay(attempt), jitter)
  IN  IF RatLt(delay, RatZero) THEN RatZero ELSE delay

\* a delay of the other module that adds up to twice the jitter factor
getBackoffDelayUtilsWide(attempt, random) ==
  PlusRat(exponentialDelay(attempt),
          Rat(exponentialDelay(attempt) * JITTER_FACTOR[1] * random[1] * 2,
              JITTER_FACTOR[2] * random[2]))

\* utils/keywordService.ts: jitter = exponentialDelay * JITTER_FACTOR * Math.random()
getBackoffDelayUtils(attempt, random) ==
  PlusRat(exponentialDelay(attempt),
          Rat(exponentialDelay(attempt) * JITTER_FACTOR[1] * random[1],
              JITTER_FACTOR[2] * random[2]))

OtherThanBackoff ==
  <<matchVars, blVars, blSyncVars, syncVars, contentVars, roundTrip, syncRequest, fetchCall,
    inserted, timerState, scheduler>>

\* the catch of the retry loop for a retryable error: retryCount++, then the delay
Retry ==
  /\ backoff.module \in {"", "entrypoints/utils"}
  /\ backoff.retryCount < MAX_RETRIES
  /\ \E random \in RandomValues :
       backoff' = [retryCount |-> backoff.retryCount + 1, random |-> random,
                   delay |-> getBackoffDelay(backoff.retryCount + 1, random),
                   module |-> "entrypoints/utils"]
  /\ UNCHANGED OtherThanBackoff

\* the same catch in utils/keywordService.ts
RetryUtils ==
  /\ backoff.module \in {"", "utils"}
  /\ backoff.retryCount < MAX_RETRIES
  /\ \E random \in RandomValues :
       backoff' = [retryCount |-> backoff.retryCount + 1, random |-> random,
                   delay |-> getBackoffDelayUtils(backoff.retryCount + 1, random),
                   module |-> "utils"]
  /\ UNCHANGED OtherThanBackoff

InitBackoff ==
  InitMatchIdle /\ InitBlacklistIdle /\ InitSyncIdle /\ InitContentIdle /\ InitPageIdle

NextBackoff == Retry \/ RetryUtils

SpecBackoff == InitBackoff /\ [][NextBackoff]_vars

(***************************************************************************)
(* C30: the delay before the k-th retry, k = 1, 2, 3, lies between 0.75 e  *)
(* and 1.25 e for e = min(10 s, 1 s * 2^k), and is never negative.         *)
(***************************************************************************)
C30_Unjittered(k) == IF 1000 * 2^k < 10000 THEN 1000 * 2^k ELSE 10000

C30_DelayWithinJitter ==
  backoff.retryCount \in 1..3 =>
    /\ RatLe(RatZero, backoff.delay)
    /\ RatLe(Rat(3 * C30_Unjittered(backoff.retryCount), 4), backoff.delay)
    /\ RatLe(backoff.delay, Rat(5 * C30_Unjittered(backoff.retryCount), 4))

\* the third retry of the content script with the lowest draw: 0.75 * 8 s
C30_Witness ==
  /\ backoff.retryCount = 3
  /\ backoff.module = "entrypoints/utils"
  /\ backoff.random = RatZero
  /\ backoff.delay = <<6000, 1>>

(***************************************************************************)
(* Sync Coordinator: the fetch of a sync against the clock. The network    *)
(* delivers the headers and the body when it pleases, or never; the abort  *)
(* timer and the storage callbacks run when they are due.                  *)
(***************************************************************************)
FETCH_TIMEOUT == 10   \* seconds: setTimeout(() => controller.abort(), 10000)

MaxElapsed == 12      \* seconds of the clock after the fetch was issued

FetchServices == {"keywords", "blacklist"}

OtherThanFetch ==
  <<matchVars, blVars, blSyncVars, syncVars, contentVars, roundTrip, syncRequest, backoff,
    inserted, timerState, scheduler>>

FetchEnds(outcome) ==
  [fetchCall EXCEPT !.pc = "done", !.timer = "cleared", !.outcome = outcome]

\* new AbortController(), setTimeout(...), fetch(url, { signal })
StartFetch ==
  /\ fetchCall.pc = "idle"
  /\ \E service \in FetchServices :
       fetchCall' = [NoFetchCall EXCEPT !.service = service, !.pc = "headers", !.timer = "armed"]
  /\ UNCHANGED OtherThanFetch

\* a second passes; an armed timer fires no later than its time
TickSecond ==
  /\ fetchCall.pc \notin {"idle", "done"}
  /\ fetchCall.elapsed < MaxElapsed
  /\ ~(fetchCall.timer = "armed" /\ fetchCall.elapsed >= FETCH_TIMEOUT)
  /\ fetchCall' = [fetchCall EXCEPT !.elapsed = @ + 1]
  /\ UNCHANGED OtherThanFetch

\* the promise of fetch() resolves with the status line and the headers:
\* clearTimeout(timeoutId), then the branch of the status
HeadersArrive ==
  /\ fetchCall.pc = "headers"
  /\ \E status \in {"200", "304", "404", "500"} :
       fetchCall' =
         CASE status = "304" -> [fetchCall EXCEPT !.pc = "touch304", !.timer = "cleared"]
           [] status = "404" -> [fetchCall EXCEPT !.pc = "remove404", !.timer = "cleared"]
           [] status = "500" -> FetchEnds("Failed")
           [] status = "200" -> [fetchCall EXCEPT !.pc = "saveHeaders", !.timer = "cleared"]
  /\ UNCHANGED OtherThanFetch

\* the promise of fetch() rejects with a network error: the catch clears the timer
FetchRejects ==
  /\ fetchCall.pc = "headers"
  /\ fetchCall' = FetchEnds("Failed")
  /\ UNCHANGED OtherThanFetch

\* the timer callback: controller.abort() rejects the pending fetch with an
\* AbortError, the catch clears the timer and the invocation fails
TimerFires ==
  /\ fetchCall.timer = "armed"
  /\ fetchCall.elapsed >= FETCH_TIMEOUT
  /\ fetchCall' = FetchEnds("Failed")
  /\ UNCHANGED OtherThanFetch

\* the storage callbacks of the 304, 404 and 200 branches
FetchTouch304 ==
  /\ fetchCall.pc = "touch304"
  /\ fetchCall' = FetchEnds("NotModified")
  /\ UNCHANGED OtherThanFetch

FetchRemove404 ==
  /\ fetchCall.pc = "remove404"
  /\ fetchCall' = FetchEnds("Failed")
  /\ UNCHANGED OtherThanFetch

FetchSaveHeaders ==
  /\ fetchCall.pc = "saveHeaders"
  /\ fetchCall' = [fetchCall EXCEPT !.pc = "body"]
  /\ UNCHANGED OtherThanFetch

\* response.json() / response.text() settles: the body has arrived, or the
\* stream broke; there is no timer behind this await
BodyArrives ==
  /\ fetchCall.pc = "body"
  /\ \E body \in {"valid", "unreadable", "invalid"} :
       fetchCall' = IF body = "valid" \/ (body = "invalid" /\ fetchCall.service = "blacklist")
                      THEN [fetchCall EXCEPT !.pc = "save"]
                      ELSE FetchEnds("Failed")
  /\ UNCHANGED OtherThanFetch

\* the snapshot and the sync time are stored
FetchSave ==
  /\ fetchCall.pc = "save"
  /\ fetchCall' = FetchEnds("Updated")
  /\ UNCHANGED OtherThanFetch

\* the caller has the outcome
FetchReturns ==
  /\ fetchCall.pc = "done"
  /\ fetchCall' = NoFetchCall
  /\ UNCHANGED OtherThanFetch

InitFetch ==
  InitMatchIdle /\ InitBlacklistIdle /\ InitSyncIdle /\ InitContentIdle /\ InitPageIdle

NextFetch ==
  \/ StartFetch
  \/ TickSecond
  \/ HeadersArrive
  \/ FetchRejects
  \/ TimerFires
  \/ FetchTouch304
  \/ FetchRemove404
  \/ FetchSaveHeaders
  \/ BodyArrives
  \/ FetchSave
  \/ FetchReturns

SpecFetch == InitFetch /\ [][NextFetch]_vars

\* the clock, the timer and the storage callbacks are not held back forever;
\* nothing makes the network deliver
SpecFetchLive ==
  /\ SpecFetch
  /\ WF_vars(TickSecond)
  /\ WF_vars(TimerFires)
  /\ WF_vars(FetchTouch304)
  /\ WF_vars(FetchRemove404)
  /\ WF_vars(FetchSaveHeaders)
  /\ WF_vars(FetchSave)

(***************************************************************************)
(* C31: every invocation that issues a fetch reaches a terminal outcome;   *)
(* a response that has not fully arrived, headers or body, within the      *)
(* budget is aborted and the invocation fails; the timer is cleared on     *)
(* every path.                                                             *)
(***************************************************************************)
AwaitingResponse == fetchCall.pc \in {"headers", "body"}

C31_EveryFetchEnds == AwaitingResponse ~> (fetchCall.pc = "done")

\* no invocation still waits for a part of the response after the budget
C31_AbortedAtBudget == AwaitingResponse => fetchCall.elapsed <= FETCH_TIMEOUT

\* the parts of the claim the code keeps: the headers are bounded by the
\* timer, and no path ends with the timer armed
C31_HeadersBounded ==
  /\ fetchCall.pc = "headers" => fetchCall.elapsed <= FETCH_TIMEOUT
  /\ fetchCall.pc = "done" => fetchCall.timer = "cleared"
  /\ fetchCall.timer = "armed" <=> fetchCall.pc = "headers"

(***************************************************************************)
(* C32: in every state that can be read while a sync is between two of its *)
(* storage writes, the stored validators and the stored snapshot belong to *)
(* the same response: an invocation that is storing a valid 2xx response   *)
(* has changed both or neither.                                            *)
(***************************************************************************)
StoringValid(invocation) ==
  /\ invocation.pc \notin {"idle", "done"}
  /\ invocation.response.kind = "200"
  /\ invocation.response.body = "valid"

C32_KeywordsNotTorn ==
  \A i \in InvIds :
    StoringValid(inv[i]) => (("validators" \in inv[i].wrote) <=> ("cache" \in inv[i].wrote))

C32_BlacklistNotTorn ==
  StoringValid(binv) => (("validators" \in binv.wrote) <=> ("list" \in binv.wrote))

C32_ValidatorsWithSnapshot == C32_KeywordsNotTorn /\ C32_BlacklistNotTorn

(***************************************************************************)
(* The readers beside the writer: getKeywordSets with its background       *)
(* handler and sync, the matching engine and the blacklist check           *)
(***************************************************************************)
InitReaders ==
  /\ InitSyncFrom({NoCache, PartialCache})
  /\ remote.sendsETag
  /\ InitBlacklistSyncIdle
  /\ blacklistEnabled = TRUE
  /\ officialBlacklist = RemoteList(1)
  /\ userBlacklist = RemoteList(2)
  /\ checkDomain = <<"a", ".", "c">>
  /\ checkResult = NotChecked
  /\ mKeywordSets \in MemoKeywordSets
  /\ mAttributes = << <<"a", "b", "c", "d">> >>
  /\ mOptions = <<>>
  /\ mResult = EmptyResult
  /\ mCalled = FALSE
  /\ matchCache = <<>>
  /\ simCall = NoSimilarity
  /\ InitContentIdle
  /\ InitPageIdle

NextReaders ==
  \/ (msg.pc = "idle" /\ CallGetKeywordSets)
  \/ CsReadCache
  \/ CsCacheReadFails
  \/ CsRequest
  \/ CsRequestRejected
  \/ HandlerAfterSync
  \/ HandlerReadCache
  \/ HandlerLocal
  \/ CsReply
  \/ CsTimeout
  \/ MsgDropped
  \/ CsDefault
  \/ CsFinish
  \/ ReadSettings("message")
  \/ SettingsReadFails("message")
  \/ ReadValidators("message")
  \/ OnResponse("message")
  \/ Touch304("message")
  \/ Remove404("message")
  \/ SaveHeaders("message")
  \/ ParseBody("message")
  \/ SaveCache("message")
  \/ SaveLastSync("message")
  \/ Match
  \/ CheckDomain
  \/ CheckDomainFails

SpecReaders == InitReaders /\ [][NextReaders]_vars

(***************************************************************************)
(* C33: only the background keyword sync writes the keyword cache, the     *)
(* validators and the last sync time: no step of getKeywordSets in the     *)
(* content script, of the matching engine or of the blacklist check        *)
(* changes them or the blacklist lists, whatever tier supplies the data.   *)
(***************************************************************************)
KeywordState == <<store.cache, store.etag, store.lastModified, store.lastSync>>

ListState == <<officialBlacklist, userBlacklist, blacklistEnabled, bstore>>

WritingSteps == {"touch304", "remove404", "saveHeaders", "saveCache", "saveLastSync"}

C33_OnlySyncWrites ==
  [][/\ (cs' # cs \/ mCalled' # mCalled \/ mResult' # mResult \/ checkResult' # checkResult)
          => (KeywordState' = KeywordState /\ ListState' = ListState)
     /\ KeywordState' # KeywordState
          => \E i \in InvIds : inv[i].pc \in WritingSteps /\ inv'[i] # inv[i]
     /\ ListState' = ListState]_vars

\* the three tiers have supplied data, and the two checks have run, beside a stored snapshot
C33_Witness ==
  /\ cs.pc = "returned"
  /\ cs.tier = "background"
  /\ store.cache # NoCache
  /\ store.lastSync # 0
  /\ mCalled
  /\ checkResult.called

C33_WitnessCacheTier == cs.pc = "returned" /\ cs.tier = "cache" /\ mCalled

C33_WitnessDefaultTier == cs.pc = "returned" /\ cs.tier = "default" /\ checkResult.called

(***************************************************************************)
(* Memoized matching: the cache filling up with the fields of many pages   *)
(***************************************************************************)
MaxInserted == 760   \* distinct attribute arrays given to smartMatchKeywords

\* the n-th attribute array: three letters, different for every n
NthAttributes(n) ==
  << << CodeUnits[((n \div 400) % 20) + 1], CodeUnits[((n \div 20) % 20) + 1],
        CodeUnits[(n % 20) + 1] >> >>

OtherThanEviction ==
  <<simCall, blVars, blSyncVars, syncVars, contentVars, roundTrip, syncRequest, backoff,
    fetchCall, timerState, scheduler>>

SmartCall(attributes) ==
  /\ mKeywordSets' = mKeywordSets
  /\ mAttributes' = attributes
  /\ mOptions' = <<>>
  /\ mResult' = smartMatchKeywords(matchCache, mKeywordSets, attributes, <<>>)
  /\ matchCache' = CacheAfterCall(matchCache, attributes, <<>>, mResult')
  /\ mCalled' = TRUE

\* a field whose attributes have not been seen before
SmartMatchNew ==
  /\ inserted < MaxInserted
  /\ SmartCall(NthAttributes(inserted))
  /\ inserted' = inserted + 1
  /\ UNCHANGED OtherThanEviction

\* a field whose attributes are those of the oldest or the newest entry
SmartMatchSeen ==
  /\ inserted > 0
  /\ \E n \in {inserted - Len(matchCache), inserted - 1} : SmartCall(NthAttributes(n))
  /\ UNCHANGED <<inserted, OtherThanEviction>>

InitEviction ==
  InitMatchIdle /\ InitBlacklistIdle /\ InitSyncIdle /\ InitContentIdle /\ InitPageIdle

NextEviction == SmartMatchNew \/ SmartMatchSeen

SpecEviction == InitEviction /\ [][NextEviction]_vars

(***************************************************************************)
(* C34: the match cache never holds more than 500 entries, and an          *)
(* insertion that finds 500 entries removes the 250 inserted earliest      *)
(* before it stores the new one.                                           *)
(***************************************************************************)
C34_OldestHalfEvicted ==
  [][/\ Len(matchCache') <= 500
     /\ (Len(matchCache) = 500 /\ matchCache' # matchCache)
          => /\ Len(matchCache') = 251
             /\ SubSeq(matchCache', 1, 250) = SubSeq(matchCache, 251, 500)
             /\ matchCache'[251].key = createKey(mAttributes', mOptions')
     /\ (Len(matchCache) < 500 /\ matchCache' # matchCache)
          => SubSeq(matchCache', 1, Len(matchCache)) = matchCache]_vars

\* the cache has been full twice and has just evicted for the second time
C34_Witness ==
  /\ inserted = 751
  /\ Len(matchCache) = 251
  /\ matchCache[1].key = createKey(NthAttributes(500), <<>>)

(***************************************************************************)
(* The periodic sync timer: onInstalled, the updateSyncSettings handler    *)
(* and the runs of initializeKeywordSync.  The device is offline, so       *)
(* every syncKeywordsData returns at its navigator.onLine check; what a    *)
(* sync does online touches neither the settings nor the timer.            *)
(***************************************************************************)

\* what earlier versions may have left as the interval: nothing (0), a value
\* below the floor, a value above it
StoredIntervals == {-1, 0, DEFAULT_SYNC_INTERVAL}

InitTimer ==
  /\ now = 1
  /\ online = FALSE
  /\ connectionType = "wifi"
  /\ \E enabled \in BOOLEAN, interval \in StoredIntervals, last \in {0, 1} :
       store = [syncEnabled |-> enabled, networkType |-> "any",
                syncInterval |-> interval, keywordsUrl |-> "",
                etag |-> 0, lastModified |-> 0, lastSync |-> last, cache |-> NoCache]
  /\ remote = [version |-> 1, sendsETag |-> TRUE, sendsLastModified |-> TRUE]
  /\ inv = [i \in InvIds |-> IdleInv]
  /\ refreshes = 0
  /\ fetchCount = 0
  /\ msg = IdleMsg
  /\ InitMatchIdle
  /\ InitBlacklistIdle
  /\ InitContentIdle
  /\ InitPageIdle

NextTimer ==
  \/ OnInstalled
  \/ OnInstalledSynced
  \/ ReceiveUpdateSyncSettings
  \/ SyncSettingsStored
  \/ SyncSettingsStoreFails
  \/ SyncSettingsAnswered
  \/ SyncSettingsClosed
  \/ \E r \in RunIds : InitializeSteps(r) \/ InitializeSynced(r)

SpecTimer == InitTimer /\ [][NextTimer]_vars

(***************************************************************************)
(* C35: no update-sync-settings request, whatever interval it carries      *)
(* (0, negative, NaN or null included), leaves a stored interval below     *)
(* the floor of one hour, and the period of the periodic sync timer is     *)
(* never below one hour whatever interval is stored.                       *)
(***************************************************************************)
C35_IntervalFloor ==
  [][/\ store'.syncInterval # store.syncInterval
          => /\ store'.syncInterval >= 1
             /\ store'.syncInterval = Max(OrZero(syncRequest.settings.syncInterval), 1)
     /\ \A t \in timerState'.timers : t.period >= 1 /\ t.period >= store'.syncInterval]_vars

\* a request whose interval is not a number has been stored as the floor, and
\* the timer set up from it has the period of one hour
C35_Witness ==
  /\ syncRequest.pc = "responded"
  /\ "syncInterval" \in DOMAIN syncRequest.settings
  /\ syncRequest.settings.syncInterval = NaN
  /\ store.syncInterval = 1
  /\ \E t \in timerState.timers : t.period = 1

\* a stored interval below the floor and a timer of one hour
C35_WitnessStoredBelow ==
  /\ store.syncInterval < 1
  /\ store.syncInterval # 0
  /\ \E t \in timerState.timers : t.period = 1

(***************************************************************************)
(* C38: at most one periodic sync timer is alive at any time, and it is    *)
(* the one syncIntervalId names; once every handler and every run of       *)
(* initializeKeywordSync has finished while the stored setting is          *)
(* syncEnabled = false, no timer is alive.                                 *)
(***************************************************************************)
AllRunsFinished ==
  /\ syncRequest.pc \in {"idle", "responded"}
  /\ timerState.onInstalled # "syncing"
  /\ \A r \in RunIds : timerState.runs[r].pc = "idle"

C38_OneTimer ==
  /\ Cardinality(timerState.timers) <= 1
  /\ \A t \in timerState.timers : t.id = timerState.syncIntervalId
  /\ (AllRunsFinished /\ ~store.syncEnabled) => timerState.timers = {}

\* the same, for the states in which the latest run did read the settings
C38_OneTimerAfterRead ==
  /\ Cardinality(timerState.timers) <= 1
  /\ \A t \in timerState.timers : t.id = timerState.syncIntervalId
  /\ (AllRunsFinished /\ ~timerState.failed /\ ~store.syncEnabled) => timerState.timers = {}

\* a timer alive although sync is disabled and nothing is in progress
C38_TimerLeftAlive ==
  /\ AllRunsFinished
  /\ ~store.syncEnabled
  /\ timerState.failed
  /\ timerState.timers # {}

(***************************************************************************)
(* The placeholder fallback of a fill pass                                 *)
(***************************************************************************)

\* the selectors of the fallback, in the order the pass tries them
FallbackSelectors(acc, keywordSets) ==
  LET missingFieldTypes == SelectSeq(<<"name", "email", "url">>, LAMBDA t : t \notin acc.foundFieldTypes)
      Flat(ops, t) == ops \o FallbackOps(t, SetOf(keywordSets, t))
  IN  FoldSeq(Flat, <<>>, missingFieldTypes)

\* the elements after the first n selectors have been tried
AfterSelectors(acc, keywordSets, user, n) ==
  LET Step(a, op) == FallbackStep(user, a, op)
  IN  FoldSeq(Step, acc, SubSeq(FallbackSelectors(acc, keywordSets), 1, n))

\* the placeholder selectors of one field type that filled an element
PlaceholderFills(els, keywordSets, user, fieldType) ==
  LET acc == MainLoop(els, keywordSets, user)
      ops == FallbackSelectors(acc, keywordSets)
  IN  {n \in DOMAIN ops :
         /\ ops[n].kind = "placeholder"
         /\ ops[n].fieldType = fieldType
         /\ AfterSelectors(acc, keywordSets, user, n) # AfterSelectors(acc, keywordSets, user, n - 1)}

\* the pass p has just run its two loops with these keyword sets
PassRanWith(p, keywordSets) ==
  /\ pass[p].pc = "keywords"
  /\ pass'[p].pc = "done"
  /\ fields' = FillFields(fields, keywordSets, profile).els
  /\ pass'[p].written = FillFields(fields, keywordSets, profile).written

(***************************************************************************)
(* C40: in the placeholder fallback of a fill pass at most one element is  *)
(* filled through the placeholder selectors for each role the first pass   *)
(* did not fill, and the fallback never overwrites a non-empty value.      *)
(***************************************************************************)
C40_OnePerRole ==
  [][\A p \in PassIds, keywordSets \in KeywordResults :
       PassRanWith(p, keywordSets)
         => /\ \A t \in AllRoles :
                 Cardinality(PlaceholderFills(fields, keywordSets, profile, t)) <= 1
            /\ \A i \in DOMAIN fields :
                 (fields[i].value # "" /\ fields'[i].value # fields[i].value)
                   => i \in MainLoop(fields, keywordSets, profile).written]_vars

\* the half of it about values: what the fallback writes to was empty
C40_NeverOverwrites ==
  [][\A p \in PassIds, keywordSets \in KeywordResults :
       PassRanWith(p, keywordSets)
         => \A i \in DOMAIN fields :
              (fields[i].value # "" /\ fields'[i].value # fields[i].value)
                => i \in MainLoop(fields, keywordSets, profile).written]_vars

\* a pass has filled two elements through placeholder selectors of one role
C40_TwoForOneRole ==
  /\ Len(fields) = 3
  /\ fields[1].tag = "textarea"
  /\ fields[2].value = profile.email
  /\ fields[3].value = profile.email

(***************************************************************************)
(* C39: a failed load of the bundled default keywords is not remembered:   *)
(* the module variable defaultKeywordSets never keeps the empty sets of a  *)
(* failed load, so that a later getKeywordSets call that reaches the       *)
(* default tier loads again.                                               *)
(***************************************************************************)
C39_FailureNotRemembered == cs.defaultKeywordSets # EmptySets

\* what happens instead: once a load has failed, every later call that
\* reaches the default tier returns the empty sets without loading
C39_EmptyForGood ==
  [][cs.defaultKeywordSets = EmptySets
       => /\ cs'.defaultKeywordSets = EmptySets
          /\ (cs.pc = "default" /\ cs'.pc = "returned") => cs'.result = EmptySets]_vars

\* a second call has reached the default tier after a failed load
C39_SecondCallEmpty ==
  /\ cs.pc = "default"
  /\ cs.defaultKeywordSets = EmptySets

(***************************************************************************)
(* Fill scheduler: performFill, requestFill and the listeners of main      *)
(***************************************************************************)
ClockStep   == 1000   \* ms between two readings of the clock
MaxRequests == 2      \* input events of the user and node additions of the page

\* fillInputFields is called: a pass starts
CanStartPass(ps) == \E p \in PassIds : ps[p].pc \in {"idle", "done"}

StartedPass(ps) ==
  IF ~CanStartPass(ps) THEN ps
  ELSE LET p == CHOOSE q \in PassIds :
                  /\ ps[q].pc \in {"idle", "done"}
                  /\ \A o \in PassIds : ps[o].pc \in {"idle", "done"} => q <= o
       IN  [ps EXCEPT ![p] = [pc |-> IF passwordFocused THEN "done" ELSE "checking",
                              response |-> Rejected, written |-> {}]]

\* clearTimeout(id); clearing null or a timeout that has fired does nothing
clearTimeout(timeouts, id) == {t \in timeouts : t.id # id}

\* window.setTimeout returns a positive id that no pending timeout has
NewTimeoutId(timeouts) ==
  CHOOSE n \in 1..(Cardinality(timeouts) + 1) :
    /\ \A t \in timeouts : t.id # n
    /\ \A m \in 1..(n - 1) : \E t \in timeouts : t.id = m

\* performFill: the pass starts, lastFillAt = Date.now(), the pending timer is cleared
performFill(sch, ps) ==
  [sch |-> [sch EXCEPT !.elapsed = 0,
                       !.fills = 1 - @,
                       !.timeouts = clearTimeout(@, sch.pendingTimer),
                       !.pendingTimer = 0],
   pass |-> StartedPass(ps)]

\* a scheduler that arms a timer without clearing the pending one
requestFillKeepingPending(sch, ps) ==
  IF sch.elapsed >= MIN_AUTOFILL_INTERVAL_MS
    THEN performFill(sch, ps)
    ELSE [sch |-> [sch EXCEPT
                     !.timeouts = @ \cup {[id |-> NewTimeoutId(sch.timeouts),
                                           remaining |-> MIN_AUTOFILL_INTERVAL_MS - sch.elapsed]},
                     !.pendingTimer = NewTimeoutId(sch.timeouts)],
          pass |-> ps]

\* requestFill: fill now, or replace the pending timer by one for the rest of the interval
requestFill(sch, ps) ==
  IF sch.elapsed >= MIN_AUTOFILL_INTERVAL_MS
    THEN performFill(sch, ps)
    ELSE LET cleared == clearTimeout(sch.timeouts, sch.pendingTimer)
         IN  [sch |-> [sch EXCEPT
                         !.timeouts = cleared \cup {[id |-> NewTimeoutId(cleared),
                                                     remaining |-> MIN_AUTOFILL_INTERVAL_MS - sch.elapsed]},
                         !.pendingTimer = NewTimeoutId(cleared)],
              pass |-> ps]

\* one requestFill for each input event that reaches the listener of the document
RECURSIVE requestFillTimes(_, _, _)
requestFillTimes(n, sch, ps) ==
  IF n = 0 THEN [sch |-> sch, pass |-> ps]
  ELSE LET r == requestFill(sch, ps)
       IN  requestFillTimes(n - 1, r.sch, r.pass)

SchedulerFrame ==
  <<matchVars, blVars, blSyncVars, syncVars, cs, profile, roundTrip, syncRequest, backoff,
    fetchCall, inserted, timerState>>

\* main(): the first pass, then the listeners are installed
Main ==
  /\ ~scheduler.loaded
  /\ CanStartPass(pass)
  /\ LET r == performFill(scheduler, pass)
     IN  /\ scheduler' = [r.sch EXCEPT !.loaded = TRUE]
         /\ pass' = r.pass
  /\ UNCHANGED <<fields, passwordFocused, SchedulerFrame>>

\* time passes
ClockAdvances ==
  /\ scheduler.loaded
  /\ \/ scheduler.elapsed < MIN_AUTOFILL_INTERVAL_MS
     \/ \E t \in scheduler.timeouts : t.remaining > 0
  /\ scheduler' =
       [scheduler EXCEPT
          !.elapsed = IF @ + ClockStep >= MIN_AUTOFILL_INTERVAL_MS
                        THEN MIN_AUTOFILL_INTERVAL_MS ELSE @ + ClockStep,
          !.timeouts = {[id |-> t.id,
                         remaining |-> IF t.remaining > ClockStep THEN t.remaining - ClockStep
                                       ELSE 0] : t \in @}]
  /\ UNCHANGED <<pass, fields, passwordFocused, SchedulerFrame>>

\* the user types into a textarea, or the page adds a node with a field:
\* the input listener and the MutationObserver call requestFill
FillRequested ==
  /\ scheduler.loaded
  /\ scheduler.requests < MaxRequests
  /\ scheduler.elapsed >= MIN_AUTOFILL_INTERVAL_MS => CanStartPass(pass)
  /\ LET r == requestFill(scheduler, pass)
     IN  /\ scheduler' = [r.sch EXCEPT !.requests = @ + 1]
         /\ pass' = r.pass
  /\ UNCHANGED <<fields, passwordFocused, SchedulerFrame>>

\* the pending timeout fires: () => performFill()
PendingTimerFires ==
  /\ CanStartPass(pass)
  /\ \E t \in scheduler.timeouts :
       /\ t.remaining = 0
       /\ LET r == performFill([scheduler EXCEPT !.timeouts = @ \ {t}], pass)
          IN  /\ scheduler' = r.sch
              /\ pass' = r.pass
  /\ UNCHANGED <<fields, passwordFocused, SchedulerFrame>>

\* getKeywordSets resolves and the two loops run; the input event dispatched
\* on a textarea bubbles to the listener of the document
FillPassHeard(p) ==
  /\ pass[p].pc = "keywords"
  /\ \E keywordSets \in KeywordResults :
       \E out \in {FillFields(fields, keywordSets, profile)} :
         \E heard \in {Cardinality({i \in out.written : fields[i].tag = "textarea"})} :
           \E r \in {requestFillTimes(heard, scheduler, pass)} :
             /\ (heard > 0 /\ scheduler.elapsed >= MIN_AUTOFILL_INTERVAL_MS)
                  => CanStartPass(pass)
             /\ fields' = out.els
             /\ pass' = [r.pass EXCEPT ![p].pc = "done", ![p].written = out.written]
             /\ scheduler' = r.sch
  /\ UNCHANGED <<passwordFocused, SchedulerFrame>>

InitScheduler ==
  /\ blacklistEnabled = FALSE
  /\ officialBlacklist = <<>>
  /\ userBlacklist = <<>>
  /\ checkDomain = <<"a", ".", "c">>
  /\ checkResult = NotChecked
  /\ cs = IdleCs
  /\ pass = [p \in PassIds |-> IdlePass]
  /\ fields \in DomPool
  /\ profile = FullProfile
  /\ passwordFocused = FALSE
  /\ InitBlacklistSyncIdle
  /\ InitMatchIdle
  /\ InitSyncIdle
  /\ InitPageIdle

NextScheduler ==
  \/ Main
  \/ ClockAdvances
  \/ FillRequested
  \/ PendingTimerFires
  \/ \E p \in PassIds : DomainResponse(p) \/ ReadUserData(p) \/ FillPassHeard(p)

SpecScheduler == InitScheduler /\ [][NextScheduler]_vars

\* the clock goes on, a timeout that is due fires, and the promises of a
\* pass settle; the user and the page are free to do nothing
SpecSchedulerLive ==
  /\ SpecScheduler
  /\ WF_vars(ClockAdvances)
  /\ WF_vars(PendingTimerFires)
  /\ \A p \in PassIds : WF_vars(DomainResponse(p) \/ ReadUserData(p) \/ FillPassHeard(p))

(***************************************************************************)
(* C36: fill passes started through the scheduler are at least 4000 ms     *)
(* apart; a requestFill less than 4000 ms after the last pass arms a       *)
(* single timer for the remaining time instead of filling, at most one     *)
(* timer is pending at any time, and a later request replaces it.          *)
(***************************************************************************)
C36_PassesApart ==
  [][/\ (scheduler.loaded /\ scheduler'.fills # scheduler.fills) => scheduler.elapsed >= 4000
     /\ Cardinality(scheduler'.timeouts) <= 1
     /\ \A t \in scheduler'.timeouts :
          /\ t.id = scheduler'.pendingTimer
          /\ t.remaining + scheduler'.elapsed = 4000
     /\ (scheduler'.requests # scheduler.requests /\ scheduler.elapsed < 4000)
          => /\ scheduler'.fills = scheduler.fills
             /\ pass' = pass
             /\ \E t \in scheduler'.timeouts : t.remaining = 4000 - scheduler.elapsed]_vars

\* a second request has replaced the timer the first one armed
C36_Witness ==
  /\ scheduler.requests = 2
  /\ scheduler.elapsed = 2000
  /\ \E t \in scheduler.timeouts : t.remaining = 2000

(***************************************************************************)
(* C37: the scheduler becomes quiet: once the user types nothing more and  *)
(* the page adds no nodes, eventually no fill pass is pending or running;  *)
(* the input and change events a pass dispatches on the fields it fills    *)
(* do not cause another pass.                                              *)
(***************************************************************************)
Quiet ==
  /\ scheduler.timeouts = {}
  /\ \A p \in PassIds : pass[p].pc \in {"idle", "done"}

C37_BecomesQuiet == <>[]Quiet

\* the events of a pass neither arm the timer nor start a pass
C37_EventsStartNothing ==
  [][\A p \in PassIds :
       (pass[p].pc = "keywords" /\ pass'[p].pc = "done")
         => /\ scheduler' = scheduler
            /\ \A q \in PassIds \ {p} : pass'[q] = pass[q]]_vars

\* a pass that filled a textarea has armed the timer
C37_PassArmsTimer ==
  /\ scheduler.requests = 0
  /\ scheduler.timeouts # {}
  /\ \E p \in PassIds : pass[p].pc = "done" /\ \E i \in pass[p].written : fields[i].tag = "textarea"

====
